---- MODULE Spec2Model ----
(***************************************************************************)
(* Print snapshot and adaptive layout engine of print_demo (src/script.js) *)
(* as a state machine.  The state is the part of the parent document the   *)
(* engine reads and writes: the wide-table regions (.print-hscroll), the   *)
(* embedded frames and their wrappers, the print-only container            *)
(* (#print-clone-root), the watermark nodes, the triggerPrint invocations  *)
(* suspended in the asynchronous snapshot build, the native print dialog   *)
(* and the console log the functions write.                                *)
(***************************************************************************)
EXTENDS Integers, Sequences, FiniteSets, TLC

VARIABLES
    activeTab,   \* id of the .tab-panel that carries class "active"
    printable,   \* document.documentElement.clientWidth
    rcfg,        \* per region: its panel, its table and the measured widths
    rstyle,      \* per region: inline transform, transform-origin, attributes
    fcfg,        \* per frame: accessibility, wrapper, content height, content
    fstyle,      \* per frame: inline heights, saved heights, wrapper overflow
    hasRoot,     \* whether #print-clone-root exists in the document
    root,        \* the sections inside #print-clone-root, in document order
    rootDisplay, \* #print-clone-root's inline display
    watermarks,  \* number of .watermark nodes in the parent document
    reqs,        \* the print runs since the page was last idle: where
                 \* each is suspended and the log() calls it has made
    dialog,      \* the native print dialog: closed, or which run opened it
    subdocs,     \* per frame: whether its document runs child.js, its
                 \* .watermark nodes and the messages posted to its window
    harness      \* direct calls of the pure functions: inputs and results

vars == <<activeTab, printable, rcfg, rstyle, fcfg, fstyle, hasRoot, root,
          rootDisplay, watermarks, reqs, dialog, subdocs, harness>>

(***************************************************************************)
(* Bounds of the model.                                                    *)
(***************************************************************************)
MaxRequests == 2        \* triggerPrint invocations before the page is idle again
MaxBrowserPrints == 1   \* browser-initiated prints before the page is idle again
MaxCols == 4            \* header cells of a table handed to the slicer directly
MaxLinks == 2           \* stylesheet links of a frame handed to the harvester directly
MaxControls == 2        \* form controls of a document handed to the materializer directly
MaxInbox == 5           \* messages posted to a frame's window and not yet delivered

(***************************************************************************)
(* Program constants.                                                      *)
(***************************************************************************)
ThresholdNum == 5       \* 0.625 = 5 / 8, the scale/slice threshold
ThresholdDen == 8
DefaultColWidth == 100  \* `c.offsetWidth || 100`

Tabs == {"tab-overview", "tab-activities"}
\* variant: the snapshot is built for the activities panel
SnapshotTabActivities == "tab-activities"
SnapshotTab == "tab-overview"
UNDEF == "<undefined>"  \* a dataset property that is not set

(***************************************************************************)
(* Names as sequences of characters, so that the two name conversions the  *)
(* browser performs are computed and not assumed: el.dataset.camelCase     *)
(* addresses the attribute data-camel-case, and an attribute selector on   *)
(* an HTML element compares the ASCII-lowercased selector name.            *)
(***************************************************************************)
Uppers == <<"A","B","C","D","E","F","G","H","I","J","K","L","M",
            "N","O","P","Q","R","S","T","U","V","W","X","Y","Z">>
Lowers == <<"a","b","c","d","e","f","g","h","i","j","k","l","m",
            "n","o","p","q","r","s","t","u","v","w","x","y","z">>

IsUpper(c) == \E i \in 1..Len(Uppers) : Uppers[i] = c

ToLower(c) ==
    IF IsUpper(c) THEN Lowers[CHOOSE i \in 1..Len(Uppers) : Uppers[i] = c] ELSE c

RECURSIVE Kebab(_)
Kebab(prop) ==
    IF prop = <<>> THEN <<>>
    ELSE (IF IsUpper(Head(prop)) THEN <<"-", ToLower(Head(prop))>>
                                 ELSE <<Head(prop)>>) \o Kebab(Tail(prop))

\* el.dataset[prop] reads and writes the attribute "data-" + kebab-case(prop)
DatasetAttr(prop) == <<"d","a","t","a","-">> \o Kebab(prop)

\* the attribute name an attribute selector [name="1"] matches on an HTML element
SelectorAttr(name) == [i \in 1..Len(name) |-> ToLower(name[i])]

PropPrintScaled == <<"p","r","i","n","t","S","c","a","l","e","d">>
PropPrintSliced == <<"p","r","i","n","t","S","l","i","c","e","d">>
\* '.print-hscroll[data-printScaled="1"]'
SelScaled == <<"d","a","t","a","-","p","r","i","n","t","S","c","a","l","e","d">>
\* '.print-hscroll[data-print-sliced="1"]'
SelSliced == <<"d","a","t","a","-","p","r","i","n","t","-","s","l","i","c","e","d">>

\* el.dataset.printScaled, el.dataset.printSliced
AttrScaled == DatasetAttr(PropPrintScaled)
AttrSliced == DatasetAttr(PropPrintSliced)
\* the attributes the two selectors of cleanupWideTablePrint look for
MatchScaled == SelectorAttr(SelScaled)
MatchSliced == SelectorAttr(SelSliced)

(***************************************************************************)
(* Arithmetic of the adapter.  Widths are integers (layout pixels); the    *)
(* ratio printable / actual is kept as the pair <<printable, actual>> and  *)
(* compared by cross-multiplication, which agrees with the IEEE division   *)
(* for every width below 2^51.                                             *)
(***************************************************************************)
RECURSIVE SumSeq(_)
SumSeq(s) == IF s = <<>> THEN 0 ELSE Head(s) + SumSeq(Tail(s))

Max(a, b) == IF a >= b THEN a ELSE b

\* JavaScript `a || b` on numbers: 0 is falsy
OrElse(a, b) == IF a = 0 THEN b ELSE a

\* const ratio = actual > 0 ? printable / actual : 1;
RatioOf(actual, p) == IF actual > 0 THEN <<p, actual>> ELSE <<1, 1>>

\* variant: the threshold compared with <= (ratio <= 0.625)
BelowOrAtThreshold(ratio) == ratio[1] * ThresholdDen <= ThresholdNum * ratio[2]

\* ratio < 0.625
BelowThreshold(ratio) == ratio[1] * ThresholdDen < ThresholdNum * ratio[2]

\* variant: ratio <= 1
AtMostOne(ratio) == ratio[1] <= ratio[2]

\* ratio < 1
BelowOne(ratio) == ratio[1] < ratio[2]

\* the branch prepareWideTablesForPrint takes for a measured width
AdapterPolicy(actual, p) ==
    IF BelowThreshold(RatioOf(actual, p)) THEN "slice" ELSE "scale"

\* Math.min(1, printable / Math.max(1, actual))
ScaleRatio(actual, p) ==
    IF p < Max(1, actual) THEN <<p, Max(1, actual)>> ELSE <<1, 1>>

\* `scale(${ratio})`
ScaleText(ratio) ==
    "scale(" \o ToString(ratio[1]) \o "/" \o ToString(ratio[2]) \o ")"

(***************************************************************************)
(* The column-slicing loop of buildTableColumnSlices.  Groups are pairs    *)
(* <<from, to>> of 0-based column indexes, half open.                      *)
(***************************************************************************)
\* const widths = cells.map((c) => c.offsetWidth || 100);
HeaderWidths(cells) == [i \in 1..Len(cells) |-> OrElse(cells[i], DefaultColWidth)]

\* variant: a group is closed without the test `i > start`
RECURSIVE SliceLoopNoStartGuard(_, _, _, _, _, _)
SliceLoopNoStartGuard(widths, p, i, start, acc, groups) ==
    IF i >= Len(widths) THEN groups
    ELSE LET w      == OrElse(widths[i + 1], DefaultColWidth)
             close  == acc + w > p
             g1     == IF close THEN Append(groups, <<start, i>>) ELSE groups
             start1 == IF close THEN i ELSE start
             acc1   == (IF close THEN 0 ELSE acc) + w
             g2     == IF i = Len(widths) - 1
                       THEN Append(g1, <<start1, i + 1>>) ELSE g1
         IN  SliceLoopNoStartGuard(widths, p, i + 1, start1, acc1, g2)

\* variant: a group is closed when the width is reached (>=), not exceeded
RECURSIVE SliceLoopCloseAtEqual(_, _, _, _, _, _)
SliceLoopCloseAtEqual(widths, p, i, start, acc, groups) ==
    IF i >= Len(widths) THEN groups
    ELSE LET w      == OrElse(widths[i + 1], DefaultColWidth)
             close  == acc + w >= p /\ i > start
             g1     == IF close THEN Append(groups, <<start, i>>) ELSE groups
             start1 == IF close THEN i ELSE start
             acc1   == (IF close THEN 0 ELSE acc) + w
             g2     == IF i = Len(widths) - 1
                       THEN Append(g1, <<start1, i + 1>>) ELSE g1
         IN  SliceLoopCloseAtEqual(widths, p, i + 1, start1, acc1, g2)

\* variant: the accumulated width is not reset when a group is closed
RECURSIVE SliceLoopKeepAcc(_, _, _, _, _, _)
SliceLoopKeepAcc(widths, p, i, start, acc, groups) ==
    IF i >= Len(widths) THEN groups
    ELSE LET w      == OrElse(widths[i + 1], DefaultColWidth)
             close  == acc + w > p /\ i > start
             g1     == IF close THEN Append(groups, <<start, i>>) ELSE groups
             start1 == IF close THEN i ELSE start
             acc1   == acc + w
             g2     == IF i = Len(widths) - 1
                       THEN Append(g1, <<start1, i + 1>>) ELSE g1
         IN  SliceLoopKeepAcc(widths, p, i + 1, start1, acc1, g2)

RECURSIVE SliceLoop(_, _, _, _, _, _)
SliceLoop(widths, p, i, start, acc, groups) ==
    IF i >= Len(widths) THEN groups
    ELSE LET w      == OrElse(widths[i + 1], DefaultColWidth)
             close  == acc + w > p /\ i > start
             g1     == IF close THEN Append(groups, <<start, i>>) ELSE groups
             start1 == IF close THEN i ELSE start
             acc1   == (IF close THEN 0 ELSE acc) + w
             g2     == IF i = Len(widths) - 1
                       THEN Append(g1, <<start1, i + 1>>) ELSE g1
         IN  SliceLoop(widths, p, i + 1, start1, acc1, g2)

ColumnGroups(cells, p) == SliceLoop(HeaderWidths(cells), p, 0, 0, 0, <<>>)

(***************************************************************************)
(* Layout facts the engine reads.                                          *)
(***************************************************************************)
\* const table = wrap.querySelector('table') || wrap.firstElementChild || wrap;
\* const actual = table?.scrollWidth || wrap.scrollWidth;
MeasuredWidth(cfg) == OrElse(cfg.contentWidth, cfg.wrapWidth)

AllCols(cols) == {i - 1 : i \in 1..Len(cols)}

\* offsetWidth of the header cells of a table: 0 for a cell that is not
\* rendered (display none, or a table that is not attached to the document)
CellWidths(cols, vis, rendered) ==
    [i \in 1..Len(cols) |-> IF rendered /\ (i - 1) \in vis THEN cols[i] ELSE 0]

\* scrollWidth of a table inside #print-clone-root: the widths of the
\* columns it shows, 0 when the table itself is display none
TableScrollWidth(sec) ==
    IF sec.tblDisplay = "none" THEN 0
    ELSE SumSeq(CellWidths(sec.cols, sec.vis, TRUE))

\* `${fullHeight}px`
Px(n) == ToString(n) \o "px"

\* JavaScript `!x` on a dataset property: undefined and '' are falsy
Falsy(x) == x = UNDEF \/ x = ""

(***************************************************************************)
(* buildTableColumnSlices(wrap).  st carries the part of the document the  *)
(* adapter writes: rs (the regions' styles), root and disp (the print-only *)
(* container and its inline display).                                      *)
(***************************************************************************)
\* variant: only the cells before the group are hidden (no test `ci >= to`)
SliceSectionHideBefore(idx, g, cols, vis) ==
    [kind |-> "slice", idx |-> idx, from |-> g[1], to |-> g[2],
     hasTable |-> TRUE, cols |-> cols,
     vis |-> {c \in vis : c >= g[1]},
     styles |-> <<>>, tblDisplay |-> "", tblTransform |-> "", tblOrigin |-> ""]

\* one section of groups.forEach: the whole table is cloned (cols) and, in
\* every row alike, the cells outside [from, to) get display none (vis is
\* the set of cell indexes still shown)
SliceSection(idx, g, cols, vis) ==
    [kind |-> "slice", idx |-> idx, from |-> g[1], to |-> g[2],
     hasTable |-> TRUE, cols |-> cols,
     vis |-> {c \in vis : c >= g[1] /\ c < g[2]},
     styles |-> <<>>, tblDisplay |-> "", tblTransform |-> "", tblOrigin |-> ""]

BuildTableColumnSlices(hasTable, cols, vis, rendered, st) ==
    IF ~hasRoot THEN st
    ELSE IF ~hasTable THEN st
    ELSE LET groups == ColumnGroups(CellWidths(cols, vis, rendered), printable)
             secs   == [k \in 1..Len(groups) |->
                            SliceSection(k, groups[k], cols, vis)]
         IN  [st EXCEPT !.root = @ \o secs, !.disp = "block"]

(***************************************************************************)
(* scaleToPrintableWidth(el): the new inline style of one region.          *)
(***************************************************************************)
ScaleToPrintableWidth(cfg, s) ==
    LET ratio == ScaleRatio(MeasuredWidth(cfg), printable)
    IN  IF BelowOne(ratio)
        THEN [s EXCEPT !.attrs = @ \cup {AttrScaled},
                       !.transformOrigin = "top left",
                       !.transform = ScaleText(ratio)]
        ELSE s

(***************************************************************************)
(* prepareWideTablesForPrint(): the forEach over .print-hscroll.           *)
(***************************************************************************)
\* variant: the region's panel is not looked at
PrepareRegionAnyPanel(i, st) ==
    LET cfg == rcfg[i]
    IN  IF AdapterPolicy(MeasuredWidth(cfg), printable) = "slice"
        THEN LET st1 == BuildTableColumnSlices(cfg.hasTable, cfg.cols,
                                               AllCols(cfg.cols), TRUE, st)
             IN  [st1 EXCEPT !.rs[i].attrs = @ \cup {AttrSliced}]
        ELSE [st EXCEPT !.rs[i] = ScaleToPrintableWidth(cfg, @)]

PrepareRegion(i, st) ==
    LET cfg == rcfg[i]
    IN  IF cfg.panel # "none" /\ cfg.panel # activeTab THEN st
        ELSE IF AdapterPolicy(MeasuredWidth(cfg), printable) = "slice"
        THEN LET st1 == BuildTableColumnSlices(cfg.hasTable, cfg.cols,
                                               AllCols(cfg.cols), TRUE, st)
             IN  [st1 EXCEPT !.rs[i].attrs = @ \cup {AttrSliced}]
        ELSE [st EXCEPT !.rs[i] = ScaleToPrintableWidth(cfg, @)]

RECURSIVE PrepareFrom(_, _)
PrepareFrom(i, st) ==
    IF i > Len(rcfg) THEN st ELSE PrepareFrom(i + 1, PrepareRegion(i, st))

PrepareWideTablesForPrint(st) == PrepareFrom(1, st)

(***************************************************************************)
(* cleanupWideTablePrint(): the two querySelectorAll passes.               *)
(***************************************************************************)
CleanupRegion(s) ==
    LET s1 == IF MatchScaled \in s.attrs
              THEN [s EXCEPT !.transform = "", !.transformOrigin = "",
                             !.attrs = @ \ {AttrScaled}]
              ELSE s
    IN  IF MatchSliced \in s1.attrs
        THEN [s1 EXCEPT !.attrs = @ \ {AttrSliced}]
        ELSE s1

CleanupWideTablePrint(rs) == [i \in 1..Len(rs) |-> CleanupRegion(rs[i])]

(***************************************************************************)
(* processWideTablesInCloneRoot(): the forEach over the tables that are in *)
(* the container when it starts (querySelectorAll is a static list).       *)
(***************************************************************************)
ProcessTable(j, st) ==
    LET sec   == st.root[j]
        ratio == RatioOf(TableScrollWidth(sec), printable)
    IN  IF ~sec.hasTable THEN st
        ELSE IF BelowThreshold(ratio)
        THEN LET st1 == BuildTableColumnSlices(TRUE, sec.cols, sec.vis, FALSE, st)
             IN  [st1 EXCEPT !.root[j].tblDisplay = "none"]
        ELSE IF BelowOne(ratio)
        THEN [st EXCEPT !.root[j].tblOrigin = "top left",
                        !.root[j].tblTransform = ScaleText(ratio)]
        ELSE st

RECURSIVE ProcessFrom(_, _, _)
ProcessFrom(j, n, st) ==
    IF j > n THEN st ELSE ProcessFrom(j + 1, n, ProcessTable(j, st))

ProcessWideTablesInCloneRoot(st) ==
    IF ~hasRoot THEN st ELSE ProcessFrom(1, Len(st.root), st)

(***************************************************************************)
(* adjustSubframeHeightsForPrint() and restoreSubframeHeights().           *)
(***************************************************************************)
\* (cw.document throws for a cross-origin frame, `if (!doc) return` leaves a
\* frame without document, body.scrollHeight throws for a document without
\* body: in each case nothing has been written yet)
AdjustFrame(cfg, s) ==
    IF cfg.access \notin {"same", "stray"} THEN s
    ELSE LET s1 == [s EXCEPT
                      !.origHeight = IF Falsy(@) THEN s.height ELSE @,
                      !.height = Px(cfg.fullHeight)]
         IN  IF cfg.hasWrap
             THEN [s1 EXCEPT
                      !.wrapOrig = IF Falsy(@) THEN s.wrapHeight ELSE @,
                      !.wrapHeight = "auto",
                      !.wrapOverflow = "visible"]
             ELSE s1

AdjustSubframeHeightsForPrint(fs) ==
    [k \in 1..Len(fs) |-> AdjustFrame(fcfg[k], fs[k])]

\* variant: the wrapper's overflow is set back to 'auto' instead of ''
RestoreFrameOverflowAuto(cfg, s) ==
    LET s1 == IF s.origHeight # UNDEF
              THEN [s EXCEPT !.height = s.origHeight, !.origHeight = UNDEF]
              ELSE s
    IN  IF cfg.hasWrap
        THEN [(IF s1.wrapOrig # UNDEF
               THEN [s1 EXCEPT !.wrapHeight = s1.wrapOrig, !.wrapOrig = UNDEF]
               ELSE s1)
              EXCEPT !.wrapOverflow = "auto"]
        ELSE s1

RestoreFrame(cfg, s) ==
    LET s1 == IF s.origHeight # UNDEF
              THEN [s EXCEPT !.height = s.origHeight, !.origHeight = UNDEF]
              ELSE s
    IN  IF cfg.hasWrap
        THEN [(IF s1.wrapOrig # UNDEF
               THEN [s1 EXCEPT !.wrapHeight = s1.wrapOrig, !.wrapOrig = UNDEF]
               ELSE s1)
              EXCEPT !.wrapOverflow = ""]
        ELSE s1

RestoreSubframeHeights(fs) ==
    [k \in 1..Len(fs) |-> RestoreFrame(fcfg[k], fs[k])]

(***************************************************************************)
(* materializeFormValues(origDoc, clonedRoot).  A control is a record of   *)
(* its tag, its type attribute (characters, empty when absent), its live   *)
(* properties (checked, value, the options' selected) and its serialized   *)
(* state (checkedAttr, valueAttr, text, the options' selectedAttr).        *)
(***************************************************************************)
NoType == <<>>           \* the control has no type attribute
TypeCheckbox == <<"c","h","e","c","k","b","o","x">>
TypeRadio == <<"r","a","d","i","o">>
TypeText == <<"t","e","x","t">>
TypeCheckboxUpper == <<"C","H","E","C","K","B","O","X">>

Option(v, sel, attr) == [value |-> v, selected |-> sel, selectedAttr |-> attr]

Control(tag, type, checked, checkedAttr, value, valueAttr, text, multiple, options) ==
    [tag |-> tag, type |-> type, checked |-> checked, checkedAttr |-> checkedAttr,
     value |-> value, valueAttr |-> valueAttr, text |-> text,
     multiple |-> multiple, options |-> options]

SelectedOptions(options) == {j \in 1..Len(options) : options[j].selected}

\* select.value: the value of the first selected option, '' when there is none
SelectValue(c) ==
    IF SelectedOptions(c.options) = {} THEN ""
    ELSE c.options[CHOOSE j \in SelectedOptions(c.options) :
                       \A k \in SelectedOptions(c.options) : j <= k].value

\* the browser's selectedness setting algorithm of a select without `multiple`
\* shown as a drop-down: no option selected selects the first one, several
\* selected keep only the last one
SettleSelectedness(multiple, options) ==
    LET sel == SelectedOptions(options)
    IN  IF multiple \/ options = <<>> THEN options
        ELSE IF sel = {} THEN [options EXCEPT ![1].selected = TRUE]
        ELSE LET last == CHOOSE j \in sel : \A k \in sel : k <= j
             IN  [j \in 1..Len(options) |->
                     [options[j] EXCEPT !.selected = (j = last)]]

\* c.value = v on a select: the first option with that value becomes the
\* selected one
SetSelectValue(c, v) ==
    LET hits  == {j \in 1..Len(c.options) : c.options[j].value = v}
        first == CHOOSE j \in hits : \A k \in hits : j <= k
        opts  == [j \in 1..Len(c.options) |->
                     [c.options[j] EXCEPT !.selected = (hits # {} /\ j = first)]]
    IN  [c EXCEPT !.options = SettleSelectedness(c.multiple, opts)]

\* opt.selected = b, then the attribute is set from opt.selected as read back
SetOptionSelected(c, j, b) ==
    LET opts == SettleSelectedness(c.multiple,
                    [c.options EXCEPT ![j].selected = b])
    IN  [c EXCEPT !.options =
            [opts EXCEPT ![j].selectedAttr = opts[j].selected]]

\* Array.from(c.options).forEach(...)
RECURSIVE MaterializeOptions(_, _, _)
MaterializeOptions(c, v, j) ==
    IF j > Len(c.options) THEN c
    ELSE MaterializeOptions(SetOptionSelected(c, j, c.options[j].value = v), v, j + 1)

\* o.getAttribute('type') || 'text'
TypeOf(o) == IF o.type = NoType THEN TypeText ELSE o.type

\* o.value
ValueOf(o) == IF o.tag = "SELECT" THEN SelectValue(o) ELSE o.value

\* c.value = v
SetValue(c, v) ==
    IF c.tag = "SELECT" THEN SetSelectValue(c, v) ELSE [c EXCEPT !.value = v]

\* c.textContent = v: the children of c, the options of a select among
\* them, are replaced by one text node
SetTextContent(c, v) == [c EXCEPT !.text = v, !.options = <<>>]

\* Array.from(c.options) throws a TypeError when c has no options property
OptionsMissing(o, c) == o.tag = "SELECT" /\ c.tag # "SELECT"

\* one iteration of the loop over the paired controls
MaterializeControl(o, c) ==
    IF o.tag = "INPUT"
    THEN IF TypeOf(o) = TypeCheckbox \/ TypeOf(o) = TypeRadio
         THEN [c EXCEPT !.checked = o.checked, !.checkedAttr = o.checked]
         ELSE [SetValue(c, ValueOf(o)) EXCEPT !.valueAttr = ValueOf(o)]
    ELSE IF o.tag = "TEXTAREA"
    THEN SetTextContent(SetValue(c, ValueOf(o)), ValueOf(o))
    ELSE IF o.tag = "SELECT"
    THEN IF OptionsMissing(o, c) THEN SetValue(c, ValueOf(o))
         ELSE MaterializeOptions(SetValue(c, ValueOf(o)), ValueOf(o), 1)
    ELSE c

Min(a, b) == IF a <= b THEN a ELSE b

\* The nodes of the source document and of the clone live in one store
\* (nodes): the source's nodes first, the clone's nodes after them.  A
\* function of the build reads and writes nodes through their places in the
\* store, as the code does through references.
\* variant: `const cloned = doc.body` (the clone is the source body itself)
CloneBaseAliased(orig) == 0

\* doc.body.cloneNode(true) makes new nodes
CloneBase(orig) == Len(orig)

\* root.querySelectorAll(tags) over the nodes at from + 1 .. from + n
QuerySelectorAll(nodes, from, n, tags) ==
    SelectSeq([k \in 1..n |-> from + k], LAMBDA id : nodes[id].tag \in tags)

ControlTags == {"INPUT", "SELECT", "TEXTAREA"}
CanvasTags == {"CANVAS"}

\* for (let i = 0; i < n; i++): the store as the loop leaves it, and whether
\* the loop ended with an exception
RECURSIVE MaterializeFrom(_, _, _, _)
MaterializeFrom(nodes, origInputs, clonedInputs, i) ==
    IF i > Min(Len(origInputs), Len(clonedInputs))
    THEN [nodes |-> nodes, threw |-> FALSE]
    ELSE LET o  == nodes[origInputs[i]]
             n1 == [nodes EXCEPT ![clonedInputs[i]] = MaterializeControl(o, @)]
         IN  IF OptionsMissing(o, nodes[clonedInputs[i]])
             THEN [nodes |-> n1, threw |-> TRUE]
             ELSE MaterializeFrom(n1, origInputs, clonedInputs, i + 1)

\* the source and the clone as materializeFormValues leaves them
MaterializeFormValues(orig, cloned) ==
    LET nodes == orig \o cloned
        res   == MaterializeFrom(nodes,
                     QuerySelectorAll(nodes, 0, Len(orig), ControlTags),
                     QuerySelectorAll(nodes, CloneBase(orig), Len(cloned), ControlTags),
                     1)
    IN  [orig |-> SubSeq(res.nodes, 1, Len(orig)),
         cloned |-> SubSeq(res.nodes, Len(orig) + 1, Len(nodes)),
         threw |-> res.threw]

(***************************************************************************)
(* copyCanvasBitmapsAsync(origDoc, clonedRoot).  A canvas is its bitmap    *)
(* and whether the bitmap is origin-clean; toDataURL throws a              *)
(* SecurityError on a canvas that is not.                                  *)
(***************************************************************************)
Canvas(pixels, tainted) == [tag |-> "CANVAS", pixels |-> pixels, tainted |-> tainted]

\* the clone of a canvas element has an empty bitmap
BlankCanvas == Canvas("", FALSE)

\* src.toDataURL('image/png')
ToDataURL(src) == <<"data:image/png", src.pixels>>

\* img.src = dataURL; img.style.maxWidth = '100%'
Img(dataURL) == [tag |-> "IMG", src |-> dataURL, maxWidth |-> "100%"]

\* variant: the first canvas whose extraction fails ends the loop
RECURSIVE CopyFromStopAtFailure(_, _, _, _)
CopyFromStopAtFailure(nodes, origCanvases, clonedCanvases, i) ==
    IF i > Min(Len(origCanvases), Len(clonedCanvases)) THEN nodes
    ELSE LET src == nodes[origCanvases[i]]
         IN  IF src.tainted THEN nodes
             ELSE CopyFromStopAtFailure(
                      [nodes EXCEPT ![clonedCanvases[i]] = Img(ToDataURL(src))],
                      origCanvases, clonedCanvases, i + 1)

\* for (let i = 0; i < n; i++) { try { ... dst.replaceWith(img) } catch {} }
\* clonedCanvases is a static list: a replaced canvas keeps its place in it
RECURSIVE CopyFrom(_, _, _, _)
CopyFrom(nodes, origCanvases, clonedCanvases, i) ==
    IF i > Min(Len(origCanvases), Len(clonedCanvases)) THEN nodes
    ELSE LET src == nodes[origCanvases[i]]
         IN  IF src.tainted
             THEN CopyFrom(nodes, origCanvases, clonedCanvases, i + 1)
             ELSE CopyFrom([nodes EXCEPT ![clonedCanvases[i]] = Img(ToDataURL(src))],
                           origCanvases, clonedCanvases, i + 1)

\* the source and the clone as copyCanvasBitmapsAsync leaves them
CopyCanvasBitmapsAsync(orig, cloned) ==
    LET nodes == orig \o cloned
        res   == CopyFrom(nodes,
                     QuerySelectorAll(nodes, 0, Len(orig), CanvasTags),
                     QuerySelectorAll(nodes, CloneBase(orig), Len(cloned), CanvasTags),
                     1)
    IN  [orig |-> SubSeq(res, 1, Len(orig)),
         cloned |-> SubSeq(res, Len(orig) + 1, Len(nodes))]

\* doc.body.cloneNode(true): the attributes and text are copied; the live
\* state of a control is copied too, or starts again from the attributes
CopyLive(o) == IF o.tag = "CANVAS" THEN BlankCanvas ELSE o

ResetLive(o) ==
    IF o.tag = "CANVAS" THEN BlankCanvas ELSE
    [o EXCEPT !.checked = o.checkedAttr,
              !.value = IF o.tag = "TEXTAREA" THEN o.text
                        ELSE IF o.valueAttr # UNDEF THEN o.valueAttr
                        ELSE o.value,
              !.options = SettleSelectedness(o.multiple,
                              [j \in 1..Len(o.options) |->
                                  [o.options[j] EXCEPT !.selected = o.options[j].selectedAttr]])]

CloneNode(orig) ==
    {c \in [1..Len(orig) -> UNION {{CopyLive(orig[i]), ResetLive(orig[i])}
                                     : i \in 1..Len(orig)}] :
        \A i \in 1..Len(orig) : c[i] \in {CopyLive(orig[i]), ResetLive(orig[i])}}

(***************************************************************************)
(* What the snapshot build finds in a frame's document.                    *)
(***************************************************************************)
\* origDoc.querySelectorAll('input, select, textarea') runs over the whole
\* document, clonedRoot.querySelectorAll over the clone of its body: a
\* "stray" document holds a select in its head and a text input in its body
StraySelect ==
    Control("SELECT", NoType, FALSE, FALSE, "", UNDEF, "", FALSE,
            <<Option("a", TRUE, TRUE), Option("b", FALSE, FALSE)>>)

StrayInput == Control("INPUT", TypeText, FALSE, FALSE, "v", "", "", FALSE, <<>>)

DocControls(cfg) ==
    IF cfg.access = "stray" THEN <<StraySelect, StrayInput>> ELSE <<>>

BodyControls(cfg) ==
    IF cfg.access = "stray" THEN <<StrayInput>> ELSE <<>>

\* materializeFormValues(doc, cloned) throws
SnapshotThrows(cfg) ==
    \E cloned \in CloneNode(BodyControls(cfg)) :
        MaterializeFormValues(DocControls(cfg), cloned).threw

(***************************************************************************)
(* extractStylesFromDocAsync(doc) and buildPrintClonesAsync().             *)
(* A request is suspended only while stylesheet fetches are outstanding:   *)
(* every other await of the build resumes in a microtask, before any       *)
(* other event handler can run.  bst carries root, disp, the log entries   *)
(* of the run and stop, the frame whose fetches the build waits for        *)
(* (0: the build returned).                                                *)
(***************************************************************************)
Entry(tag, k) == <<tag, k>>

\* `const doc = cw?.document; if (!doc) continue;` falls through: the frame
\* is same-origin and has a document ("nobody": a document without body,
\* "stray": a document with a control outside its body)
HasDocument(k) == fcfg[k].access \in {"same", "nobody", "stray"}

\* the links whose task reaches `await fetch(url.href)`
FetchLinks(k) ==
    {i \in 1..Len(fcfg[k].links) : fcfg[k].links[i].kind = "same"}

\* variant: the response's text is taken without looking at res.ok
FetchResultIgnoreStatus(link, outcome) ==
    IF outcome \in {"ok", "notok"} THEN link.text ELSE ""

\* what a link's task returns: the fetched text, or '' when it failed
FetchResult(link, outcome) == IF outcome = "ok" THEN link.text ELSE ""

NoExt(k) == [i \in 1..Len(fcfg[k].links) |-> ""]

NonEmpty(t) == t # ""

\* variant: texts.concat(ext), the empty strings of the failed links kept
HarvestResultKeepEmpty(k, ext) == fcfg[k].inline \o ext

\* variant: ext.filter(Boolean).concat(texts)
HarvestResultLinksFirst(k, ext) == SelectSeq(ext, NonEmpty) \o fcfg[k].inline

\* texts.concat(ext.filter(Boolean))
HarvestResult(k, ext) == fcfg[k].inline \o SelectSeq(ext, NonEmpty)

SnapshotSection(k, ext) ==
    [kind |-> "snapshot", idx |-> k, from |-> 0, to |-> Len(fcfg[k].cols),
     hasTable |-> fcfg[k].cols # <<>>, cols |-> fcfg[k].cols,
     vis |-> AllCols(fcfg[k].cols),
     styles |-> HarvestResult(k, ext),
     tblDisplay |-> "", tblTransform |-> "", tblOrigin |-> ""]

\* the rest of one loop iteration once the styles of frame k are harvested
\* (doc.body.cloneNode throws when the document has no body, and
\* materializeFormValues may throw: the catch logs the error and the section
\* is dropped)
FinishFrame(k, ext, bst) ==
    IF fcfg[k].access = "nobody" \/ SnapshotThrows(fcfg[k])
    THEN [bst EXCEPT !.log = Append(@, Entry("buildPrintClonesAsync:error", k))]
    ELSE [bst EXCEPT !.root = Append(@, SnapshotSection(k, ext)),
                     !.log = Append(@, Entry("buildPrintClonesAsync:cloned", k))]

\* variant: the loop does not wait for a frame's stylesheets; the frame's
\* section is not in the container when the build returns
RECURSIVE RunBuildNoAwait(_, _)
RunBuildNoAwait(k, bst) ==
    IF k > Len(fcfg)
    THEN [bst EXCEPT !.stop = 0, !.disp = "block",
                     !.log = Append(@, Entry("buildPrintClonesAsync:done", 0))]
    ELSE IF ~HasDocument(k) THEN RunBuildNoAwait(k + 1, bst)
    ELSE LET b1 == [bst EXCEPT
                      !.log = Append(@, Entry("extractStylesFromDocAsync:start", k))]
         IN  IF FetchLinks(k) = {}
             THEN RunBuildNoAwait(k + 1, FinishFrame(k, NoExt(k), b1))
             ELSE RunBuildNoAwait(k + 1, b1)

RECURSIVE RunBuild(_, _)
RunBuild(k, bst) ==
    IF k > Len(fcfg)
    THEN [bst EXCEPT !.stop = 0, !.disp = "block",
                     !.log = Append(@, Entry("buildPrintClonesAsync:done", 0))]
    ELSE IF ~HasDocument(k) THEN RunBuild(k + 1, bst)
    ELSE LET b1 == [bst EXCEPT
                      !.log = Append(@, Entry("extractStylesFromDocAsync:start", k))]
         IN  IF FetchLinks(k) = {}
             THEN RunBuild(k + 1, FinishFrame(k, NoExt(k), b1))
             ELSE [b1 EXCEPT !.stop = k]

BuildPrintClonesAsync(bst) ==
    LET b1 == [bst EXCEPT
                 !.log = Append(@, Entry("buildPrintClonesAsync:start", 0))]
    IN  IF ~hasRoot THEN [b1 EXCEPT !.stop = 0]
        ELSE RunBuild(1, [b1 EXCEPT !.root = <<>>])

(***************************************************************************)
(* handleAfterPrint() on the part of the document it writes.               *)
(***************************************************************************)
\* variant: the container is hidden but its sections are kept
ClearPrintClonesHideOnly(m) ==
    IF ~hasRoot THEN m ELSE [m EXCEPT !.disp = "none"]

ClearPrintClones(m) ==
    IF ~hasRoot THEN m ELSE [m EXCEPT !.root = <<>>, !.disp = "none"]

HandleAfterPrint(m) ==
    ClearPrintClones([m EXCEPT !.wm = 0,
                               !.fs = RestoreSubframeHeights(@),
                               !.rs = CleanupWideTablePrint(@)])

Doc == [wm |-> watermarks, fs |-> fstyle, rs |-> rstyle,
        root |-> root, disp |-> rootDisplay]

(***************************************************************************)
(* The sub-documents (src/child.js) and notifySubframes(type).  A frame's  *)
(* document that runs child.js listens to the messages of the parent and   *)
(* to its own beforeprint and afterprint, and exposes appBeforePrint and   *)
(* appAfterPrint on its window.  A message posted to a window nobody       *)
(* listens on has no effect and is not kept.                               *)
(***************************************************************************)
MsgPrep == "app-print-prep"
MsgClean == "app-print-clean"

SubDoc(listens) == [listens |-> listens, wm |-> 0, inbox |-> <<>>, direct |-> <<>>]

\* variant: the watermark is appended without looking for an existing one
AppBeforePrintUnguarded(d) == [d EXCEPT !.wm = @ + 1]

\* function appBeforePrint() of child.js
AppBeforePrint(d) == IF d.wm > 0 THEN d ELSE [d EXCEPT !.wm = @ + 1]

\* function appAfterPrint() of child.js
AppAfterPrint(d) == [d EXCEPT !.wm = 0]

\* the listener of bindMessageBridge
OnMessage(d, type) ==
    IF type = MsgPrep THEN AppBeforePrint(d)
    ELSE IF type = MsgClean THEN AppAfterPrint(d)
    ELSE d

\* f.contentWindow is null
NoWindow(cfg) == cfg.access = "nodoc"

\* cw.postMessage({ type }, '*')
PostMessage(d, type) ==
    IF d.listens THEN [d EXCEPT !.inbox = Append(@, type)] ELSE d

\* the body of frames.forEach in notifySubframes: reading cw.appBeforePrint
\* throws on a cross-origin window, after the message has been posted
NotifyFrame(type, cfg, d) ==
    IF NoWindow(cfg) THEN d
    ELSE LET d1 == [PostMessage(d, type) EXCEPT !.direct = <<>>]
         IN  IF cfg.access = "cross" \/ ~d.listens THEN d1
             ELSE IF type = MsgPrep
             THEN AppBeforePrint([d1 EXCEPT !.direct = <<"appBeforePrint">>])
             ELSE IF type = MsgClean
             THEN AppAfterPrint([d1 EXCEPT !.direct = <<"appAfterPrint">>])
             ELSE d1

\* variant: no try/catch around a frame: the first cross-origin frame ends
\* the loop
NotifySubframesStopAtError(type, sd) ==
    [k \in 1..Len(sd) |->
        IF \E j \in 1..k : fcfg[j].access = "cross"
        THEN (IF fcfg[k].access = "cross" /\ \A j \in 1..(k - 1) : fcfg[j].access # "cross"
              THEN [PostMessage(sd[k], type) EXCEPT !.direct = <<>>]
              ELSE sd[k])
        ELSE NotifyFrame(type, fcfg[k], sd[k])]

NotifySubframes(type, sd) ==
    [k \in 1..Len(sd) |-> NotifyFrame(type, fcfg[k], sd[k])]

\* the browser fires beforeprint / afterprint in the frames' documents too
\* when the page is printed (own: whether it does)
OwnBeforePrint(sd, own) ==
    [k \in 1..Len(sd) |->
        IF own /\ sd[k].listens /\ ~NoWindow(fcfg[k]) THEN AppBeforePrint(sd[k])
        ELSE sd[k]]

OwnAfterPrint(sd, own) ==
    [k \in 1..Len(sd) |->
        IF own /\ sd[k].listens /\ ~NoWindow(fcfg[k]) THEN AppAfterPrint(sd[k])
        ELSE sd[k]]

\* window.print() up to the dialog: handleBeforePrint's notifySubframes and
\* the frames' own beforeprint
PrintStart(sd, own) == OwnBeforePrint(NotifySubframes(MsgPrep, sd), own)

\* afterprint: the frames' own afterprint and handleAfterPrint's notifySubframes
PrintEnd(sd, own) == NotifySubframes(MsgClean, OwnAfterPrint(sd, own))

\* the messages a run has still to post to each frame: handleBeforePrint's
\* and handleAfterPrint's
Owed(run) == IF run.pc = "done" THEN 0 ELSE IF run.pc = "printing" THEN 1 ELSE 2

RECURSIVE OwedBy(_)
OwedBy(runs) == IF runs = <<>> THEN 0 ELSE Owed(Head(runs)) + OwedBy(Tail(runs))

\* every inbox has room for n more messages and those the runs still owe
InboxRoom(runs, n) ==
    \A k \in 1..Len(subdocs) :
        subdocs[k].listens => Len(subdocs[k].inbox) + OwedBy(runs) + n <= MaxInbox

(***************************************************************************)
(* The print runs.  A run is one invocation of triggerPrint ("request")    *)
(* or one print started from the browser's menu ("browser").  The page is  *)
(* idle when no run is under way; the finished runs are kept until the     *)
(* next run starts from idle.                                              *)
(***************************************************************************)
Closed == [open |-> FALSE, by |-> 0]

Idle == ~dialog.open /\ \A r \in 1..Len(reqs) : reqs[r].pc = "done"

Current == IF Idle THEN <<>> ELSE reqs

CountKind(s, kind) == Cardinality({r \in 1..Len(s) : s[r].kind = kind})

Run(kind, pc, k, trace) ==
    [kind |-> kind, pc |-> pc, idx |-> k,
     pending |-> IF k = 0 THEN {} ELSE FetchLinks(k),
     ext |-> IF k = 0 THEN <<>> ELSE NoExt(k),
     trace |-> trace]

\* the tail of triggerPrint once the build has returned:
\* processWideTablesInCloneRoot(); window.print();
\* window.print() fires beforeprint (handleBeforePrint) and opens the dialog
TailTrace == <<Entry("processWideTablesInCloneRoot:start", 0),
               Entry("window.print", 0),
               Entry("handleBeforePrint:start", 0)>>

\* variant: triggerPrint returns without calling window.print()
FinishTriggerPrintNoPrint(r, b, runs, sd) ==
    LET st == ProcessWideTablesInCloneRoot([root |-> b.root, disp |-> b.disp])
    IN  /\ root' = st.root
        /\ rootDisplay' = st.disp
        /\ subdocs' = sd
        /\ UNCHANGED <<watermarks, dialog>>
        /\ reqs' = [runs EXCEPT ![r] =
                       Run("request", "done", 0,
                           Append(b.log, Entry("processWideTablesInCloneRoot:start", 0)))]

\* variant: buildPrintClonesAsync has no try/catch around a frame, so the
\* error of a frame escapes triggerPrint before window.print()
FinishTriggerPrintUnlessError(r, b, runs, sd) ==
    LET st == ProcessWideTablesInCloneRoot([root |-> b.root, disp |-> b.disp])
    IN  IF \E n \in 1..Len(b.log) : b.log[n][1] = "buildPrintClonesAsync:error"
        THEN /\ root' = b.root
             /\ rootDisplay' = b.disp
             /\ subdocs' = sd
             /\ UNCHANGED <<watermarks, dialog>>
             /\ reqs' = [runs EXCEPT ![r] = Run("request", "done", 0, b.log)]
        ELSE /\ root' = st.root
             /\ rootDisplay' = st.disp
             /\ \E own \in BOOLEAN : subdocs' = PrintStart(sd, own)
             /\ watermarks' = watermarks + 1
             /\ dialog' = [open |-> TRUE, by |-> r]
             /\ reqs' = [runs EXCEPT ![r] =
                            Run("request", "printing", 0, b.log \o TailTrace)]

FinishTriggerPrint(r, b, runs, sd) ==
    LET st == ProcessWideTablesInCloneRoot([root |-> b.root, disp |-> b.disp])
    IN  /\ root' = st.root
        /\ rootDisplay' = st.disp
        /\ \E own \in BOOLEAN : subdocs' = PrintStart(sd, own)
        /\ watermarks' = watermarks + 1
        /\ dialog' = [open |-> TRUE, by |-> r]
        /\ reqs' = [runs EXCEPT ![r] =
                       Run("request", "printing", 0, b.log \o TailTrace)]

Suspend(r, b, runs, sd) ==
    /\ root' = b.root
    /\ rootDisplay' = b.disp
    /\ subdocs' = sd
    /\ reqs' = [runs EXCEPT ![r] = Run("request", "await", b.stop, b.log)]
    /\ UNCHANGED <<watermarks, dialog>>

\* a click on a print button: triggerPrint() up to its first suspension
TriggerPrint ==
    /\ ~dialog.open
    /\ CountKind(Current, "request") < MaxRequests
    /\ InboxRoom(Current, 3)
    /\ LET r   == Len(Current) + 1
           sd  == NotifySubframes(MsgPrep, subdocs)
           st1 == PrepareWideTablesForPrint(
                      [rs |-> rstyle, root |-> root, disp |-> rootDisplay])
           lg  == <<Entry("triggerPrint:start", 0),
                    Entry("prepareWideTablesForPrint:done", 0),
                    Entry("prepareAllFramesForPrint:done", 0)>>
           b0  == [root |-> st1.root, disp |-> st1.disp, log |-> lg, stop |-> 0]
           b   == IF activeTab = SnapshotTab THEN BuildPrintClonesAsync(b0) ELSE b0
       IN  /\ rstyle' = st1.rs
           /\ fstyle' = AdjustSubframeHeightsForPrint(fstyle)
           /\ IF b.stop # 0
              THEN Suspend(r, b, Append(Current, Run("request", "start", 0, lg)), sd)
              ELSE FinishTriggerPrint(r, b,
                       Append(Current, Run("request", "start", 0, lg)), sd)
    /\ UNCHANGED <<activeTab, printable, rcfg, fcfg, hasRoot, harness>>

\* one stylesheet fetch of a suspended request settles; the last one of a
\* frame resumes the build
FetchSettleStep(r, i, outcome) ==
    /\ ~dialog.open
    /\ r \in 1..Len(reqs)
    /\ reqs[r].pc = "await"
    /\ i \in reqs[r].pending
    /\ LET k    == reqs[r].idx
           ext1 == [reqs[r].ext EXCEPT ![i] = FetchResult(fcfg[k].links[i], outcome)]
           left == reqs[r].pending \ {i}
       IN  IF left # {}
           THEN /\ reqs' = [reqs EXCEPT ![r].pending = left, ![r].ext = ext1]
                /\ UNCHANGED <<root, rootDisplay, watermarks, dialog, subdocs>>
           ELSE LET b == RunBuild(k + 1,
                             FinishFrame(k, ext1,
                                 [root |-> root, disp |-> rootDisplay,
                                  log |-> reqs[r].trace, stop |-> 0]))
                IN  IF b.stop # 0 THEN Suspend(r, b, reqs, subdocs)
                                  ELSE FinishTriggerPrint(r, b, reqs, subdocs)
    /\ UNCHANGED <<activeTab, printable, rcfg, rstyle, fcfg, fstyle, hasRoot>>

FetchSettle(r, i, outcome) ==
    /\ FetchSettleStep(r, i, outcome)
    /\ UNCHANGED harness

FetchOutcomes == {"ok", "empty", "notok", "reject"}

Fetch == \E r \in 1..Len(reqs) : \E i \in reqs[r].pending : \E o \in FetchOutcomes :
            FetchSettle(r, i, o)

\* the user prints from the browser's menu: beforeprint fires, the dialog opens
BrowserPrint ==
    /\ ~dialog.open
    /\ CountKind(Current, "browser") < MaxBrowserPrints
    /\ InboxRoom(Current, 2)
    /\ \E own \in BOOLEAN : subdocs' = PrintStart(subdocs, own)
    /\ watermarks' = watermarks + 1
    /\ dialog' = [open |-> TRUE, by |-> Len(Current) + 1]
    /\ reqs' = Append(Current, Run("browser", "printing", 0,
                                   <<Entry("handleBeforePrint:start", 0)>>))
    /\ UNCHANGED <<activeTab, printable, rcfg, rstyle, fcfg, fstyle, hasRoot,
                   root, rootDisplay, harness>>

\* the dialog closes: afterprint fires and handleAfterPrint runs
AfterPrint ==
    /\ dialog.open
    /\ LET m == HandleAfterPrint(Doc)
       IN  /\ watermarks' = m.wm
           /\ fstyle' = m.fs
           /\ rstyle' = m.rs
           /\ root' = m.root
           /\ rootDisplay' = m.disp
    /\ \E own \in BOOLEAN : subdocs' = PrintEnd(subdocs, own)
    /\ dialog' = Closed
    /\ reqs' = [reqs EXCEPT ![dialog.by].pc = "done",
                            ![dialog.by].trace =
                                @ \o <<Entry("handleAfterPrint:start", 0),
                                       Entry("handleAfterPrint:done", 0)>>]
    /\ UNCHANGED <<activeTab, printable, rcfg, fcfg, hasRoot, harness>>

\* a click on a tab button: setActiveTab(id)
SetActiveTab ==
    /\ ~dialog.open
    /\ \E id \in Tabs : activeTab' = id
    /\ UNCHANGED <<printable, rcfg, rstyle, fcfg, fstyle, hasRoot, root,
                   rootDisplay, watermarks, reqs, dialog, subdocs, harness>>

PrintableWidths == {1000, 1800}

\* the window is resized
Resize ==
    /\ ~dialog.open
    /\ \E p \in PrintableWidths : printable' = p
    /\ UNCHANGED <<activeTab, rcfg, rstyle, fcfg, fstyle, hasRoot, root,
                   rootDisplay, watermarks, reqs, dialog, subdocs, harness>>

(***************************************************************************)
(* The page.                                                               *)
(***************************************************************************)
NoStyle == [transform |-> "", transformOrigin |-> "", attrs |-> {}]

PageRegions ==
    << [panel |-> "tab-activities", hasTable |-> TRUE, cols |-> <<600, 600, 800>>,
        contentWidth |-> 2000, wrapWidth |-> 900],
       [panel |-> "tab-overview", hasTable |-> TRUE, cols |-> <<900, 800>>,
        contentWidth |-> 1700, wrapWidth |-> 900] >>

Link(kind, text) == [kind |-> kind, text |-> text]

PageFrames(a1, a2) ==
    << [access |-> a1, hasWrap |-> TRUE, fullHeight |-> 1200,
        inline |-> <<"A">>,
        links |-> <<Link("same", "B"), Link("cross", "X")>>,
        cols |-> <<600, 600>>],
       [access |-> a2, hasWrap |-> FALSE, fullHeight |-> 800,
        inline |-> <<>>,
        links |-> <<Link("nohref", ""), Link("same", "D")>>,
        cols |-> <<900, 900>>] >>

FrameStyle(h, wh) ==
    [height |-> h, origHeight |-> UNDEF,
     wrapHeight |-> wh, wrapOrig |-> UNDEF, wrapOverflow |-> ""]

PageFrameStyles == <<FrameStyle("", "320px"), FrameStyle("200px", "")>>

FrameAccess == {<<"same", "same">>, <<"cross", "same">>, <<"same", "nodoc">>,
                <<"nobody", "same">>, <<"stray", "same">>}

Init ==
    /\ activeTab = "tab-overview"
    /\ printable = 1000
    /\ rcfg = PageRegions
    /\ rstyle = [i \in 1..Len(PageRegions) |-> NoStyle]
    /\ \E a \in FrameAccess : fcfg = PageFrames(a[1], a[2])
    /\ fstyle = PageFrameStyles
    /\ subdocs = [k \in 1..Len(PageFrameStyles) |-> SubDoc(FALSE)]
    /\ hasRoot \in BOOLEAN
    /\ root = <<>>
    /\ rootDisplay = "none"
    /\ watermarks = 0
    /\ reqs = <<>>
    /\ dialog = Closed
    /\ harness = "none"

Next ==
    \/ TriggerPrint
    \/ Fetch
    \/ BrowserPrint
    \/ AfterPrint
    \/ SetActiveTab
    \/ Resize

Spec == Init /\ [][Next]_vars

(***************************************************************************)
(* SpecAdapter: the adapter's functions called directly on a page with one *)
(* region, for every header of up to MaxCols cells and every measured      *)
(* width drawn from the sets below.                                        *)
(***************************************************************************)
AdapterCellWidths == {0, 300, 600, 1200}
AdapterPrintable == {500, 1000}
\* <<scrollWidth of the region's content, scrollWidth of the region>>
AdapterMeasures == {<<0, 0>>, <<0, 1700>>, <<1000, 900>>, <<1600, 900>>,
                    <<1601, 900>>, <<2000, 900>>}
AdapterHeaders == UNION {[1..n -> AdapterCellWidths] : n \in 0..MaxCols}

InitAdapter ==
    /\ activeTab = "tab-overview"
    /\ printable \in AdapterPrintable
    /\ \E cols \in AdapterHeaders : \E m \in AdapterMeasures :
           rcfg = << [panel |-> "none", hasTable |-> TRUE, cols |-> cols,
                      contentWidth |-> m[1], wrapWidth |-> m[2]] >>
    /\ rstyle = <<NoStyle>>
    /\ fcfg = <<>>
    /\ fstyle = <<>>
    /\ subdocs = <<>>
    /\ hasRoot = TRUE
    /\ root = <<>>
    /\ rootDisplay = "none"
    /\ watermarks = 0
    /\ reqs = <<>>
    /\ dialog = Closed
    /\ harness = "ready"

\* buildTableColumnSlices(wrap) on the region
CallBuildTableColumnSlices ==
    /\ harness = "ready"
    /\ LET st == BuildTableColumnSlices(rcfg[1].hasTable, rcfg[1].cols,
                     AllCols(rcfg[1].cols), TRUE,
                     [rs |-> rstyle, root |-> root, disp |-> rootDisplay])
       IN  /\ root' = st.root
           /\ rootDisplay' = st.disp
           /\ rstyle' = st.rs
    /\ harness' = "slices"
    /\ UNCHANGED <<activeTab, printable, rcfg, fcfg, fstyle, hasRoot,
                   watermarks, reqs, dialog, subdocs>>

\* prepareWideTablesForPrint() on the page
CallPrepareWideTablesForPrint ==
    /\ harness = "ready"
    /\ LET st == PrepareWideTablesForPrint(
                     [rs |-> rstyle, root |-> root, disp |-> rootDisplay])
       IN  /\ root' = st.root
           /\ rootDisplay' = st.disp
           /\ rstyle' = st.rs
    /\ harness' = "prepare"
    /\ UNCHANGED <<activeTab, printable, rcfg, fcfg, fstyle, hasRoot,
                   watermarks, reqs, dialog, subdocs>>

NextAdapter ==
    \/ CallBuildTableColumnSlices
    \/ CallPrepareWideTablesForPrint

SpecAdapter == InitAdapter /\ [][NextAdapter]_vars

(***************************************************************************)
(* Reading the log of a run.                                               *)
(***************************************************************************)
Pos(t, e) ==
    IF \E i \in 1..Len(t) : t[i] = e
    THEN CHOOSE i \in 1..Len(t) : t[i] = e /\ \A j \in 1..(i - 1) : t[j] # e
    ELSE 0

Count(t, e) == Cardinality({i \in 1..Len(t) : t[i] = e})

IsPrefix(a, b) == Len(a) <= Len(b) /\ \A i \in 1..Len(a) : a[i] = b[i]

\* the lifecycle phases a run's log shows it entering, in order
RECURSIVE Phases(_)
Phases(t) ==
    IF t = <<>> THEN <<>>
    ELSE (CASE Head(t)[1] = "triggerPrint:start"     -> <<"Preparing">>
            [] Head(t)[1] = "window.print"           -> <<"Printing">>
            [] Head(t)[1] = "handleAfterPrint:start" -> <<"Cleaning">>
            [] Head(t)[1] = "handleAfterPrint:done"  -> <<"Idle">>
            [] OTHER                                 -> <<>>) \o Phases(Tail(t))

LifeCycle == <<"Preparing", "Printing", "Cleaning", "Idle">>

SameOriginFrames == {k \in 1..Len(fcfg) : fcfg[k].access = "same"}

CleanupRuns(t) == Count(t, Entry("handleAfterPrint:start", 0))

\* C1: one print request from Idle, with the overview tab active and an
\* accessible same-origin frame, alone until the dialog closes: its log shows
\* Preparing, Printing, Cleaning, Idle once each in that order; the container
\* holds a section while the dialog it opened is open, and none once
\* handleAfterPrint has finished.
C1_Alone ==
    /\ hasRoot
    /\ SameOriginFrames # {}
    /\ Len(reqs) = 1
    /\ reqs[1].kind = "request"
    /\ Pos(reqs[1].trace, Entry("buildPrintClonesAsync:start", 0)) > 0

C1_EndToEnd ==
    C1_Alone =>
        /\ IsPrefix(Phases(reqs[1].trace), LifeCycle)
        /\ reqs[1].pc = "printing" => dialog.open /\ Len(root) >= 1
        /\ reqs[1].pc = "done" =>
              /\ Phases(reqs[1].trace) = LifeCycle
              /\ root = <<>>
              /\ Idle

C1_Witness == C1_Alone /\ reqs[1].pc = "done" /\ Cardinality(SameOriginFrames) = 2

\* C2 (as claimed): a triggerPrint that starts while the page is not idle
\* changes neither the container nor any frame's or region's style.
C2_NoReentrantEffect ==
    [][(~Idle /\ Len(reqs') = Len(reqs) + 1
               /\ reqs'[Len(reqs')].kind = "request")
          => (root' = root /\ rootDisplay' = rootDisplay
              /\ fstyle' = fstyle /\ rstyle' = rstyle)]_vars

\* C3 (as claimed): once the page is idle again, every cleanup run belongs
\* to a print request that started preparation, one run per request.
C3_CleanupOnlyAfterPreparation ==
    Idle => \A r \in 1..Len(reqs) :
                /\ CleanupRuns(reqs[r].trace) = 1
                /\ Pos(reqs[r].trace, Entry("triggerPrint:start", 0)) = 1

\* C3 (amended): handleAfterPrint runs once per native print, after that
\* print's handleBeforePrint, whether window.print() was called by a print
\* request or the print was started from the browser; a run is over exactly
\* when its cleanup has run, and once the page is idle every request that
\* started preparation has called window.print() and had its cleanup.
C3_CleanupPerPrint ==
    /\ \A r \in 1..Len(reqs) :
          LET t == reqs[r].trace
          IN  /\ CleanupRuns(t) <= 1
              /\ (reqs[r].pc = "done") <=> (CleanupRuns(t) = 1)
              /\ CleanupRuns(t) = 1 =>
                    /\ Pos(t, Entry("handleBeforePrint:start", 0)) > 0
                    /\ Pos(t, Entry("handleBeforePrint:start", 0))
                          < Pos(t, Entry("handleAfterPrint:start", 0))
              /\ (reqs[r].kind = "request" /\ CleanupRuns(t) = 1) =>
                    Pos(t, Entry("window.print", 0)) > 0
    /\ Idle => \A r \in 1..Len(reqs) : CleanupRuns(reqs[r].trace) = 1

C3_Witness ==
    /\ Idle
    /\ Len(reqs) = 2
    /\ reqs[1].kind = "request"
    /\ reqs[2].kind = "browser"
    /\ Pos(reqs[1].trace, Entry("buildPrintClonesAsync:cloned", 2)) > 0
    /\ root = <<>>

\* C4 (as claimed): once cleanup has run and the page is idle, every region
\* has the inline transform, transform-origin and markers it had before.
C4_RegionRoundTrip ==
    Idle => \A i \in 1..Len(rstyle) : rstyle[i] = NoStyle

\* C5 (as claimed): once cleanup has run and the page is idle, every frame
\* and wrapper has the inline height and overflow it had before the requests.
C5_HeightRoundTrip ==
    Idle => fstyle = PageFrameStyles

Groups == [k \in 1..Len(root) |-> <<root[k].from, root[k].to>>]

RECURSIVE RangeSum(_, _, _)
RangeSum(w, from, to) ==
    IF from >= to THEN 0 ELSE w[from + 1] + RangeSum(w, from + 1, to)

\* C7: the groups are half-open ranges [from, to), 0 <= from < to <= columnCount,
\* the first starting at 0, each next one starting where the previous ends,
\* the last ending at columnCount; no group for a header without cells.
C7_GroupsPartition ==
    harness = "slices" =>
        LET n == Len(rcfg[1].cols)
            g == Groups
        IN  /\ n = 0 => g = <<>>
            /\ n >= 1 => Len(g) >= 1 /\ g[1][1] = 0 /\ g[Len(g)][2] = n
            /\ \A k \in 1..Len(g) :
                  0 <= g[k][1] /\ g[k][1] < g[k][2] /\ g[k][2] <= n
            /\ \A k \in 1..(Len(g) - 1) : g[k + 1][1] = g[k][2]

C7_Witness ==
    /\ harness = "slices"
    /\ Len(root) = 3
    /\ \E c \in 1..Len(rcfg[1].cols) : rcfg[1].cols[c] > printable

\* C8: a boundary lies before column i only when the current group's widths
\* plus column i's width exceed the printable width; so a group of two or
\* more columns fits, and a column wider than the printable width is alone.
\* 1000 and [300, 300, 300, 300] give [0,3) and [3,4).
C8_Boundaries ==
    harness = "slices" =>
        LET w == HeaderWidths(rcfg[1].cols)
            g == Groups
        IN  /\ \A k \in 1..(Len(g) - 1) :
                  RangeSum(w, g[k][1], g[k][2]) + w[g[k][2] + 1] > printable
            /\ \A k \in 1..Len(g) :
                  g[k][2] - g[k][1] >= 2 =>
                      RangeSum(w, g[k][1], g[k][2]) <= printable
            /\ \A c \in 1..Len(w) :
                  w[c] > printable => \E k \in 1..Len(g) : g[k] = <<c - 1, c>>
            /\ (printable = 1000 /\ rcfg[1].cols = <<300, 300, 300, 300>>) =>
                  g = << <<0, 3>>, <<3, 4>> >>

C8_Witness ==
    /\ harness = "slices"
    /\ printable = 1000
    /\ rcfg[1].cols = <<300, 300, 300, 300>>
    /\ Len(root) = 2

\* C9: prepareWideTablesForPrint slices a region exactly when its measured
\* width actual is > 0 and 8 * printable < 5 * actual, and scales otherwise;
\* 1600 at 1000 is scaled; a width <= 0 is never sliced.
C9_Sliced == AttrSliced \in rstyle[1].attrs
C9_Scaled == AttrScaled \in rstyle[1].attrs

C9_DecisionRule ==
    harness = "prepare" =>
        LET actual == MeasuredWidth(rcfg[1])
        IN  /\ C9_Sliced <=> (actual > 0 /\ 8 * printable < 5 * actual)
            /\ ~(C9_Sliced /\ C9_Scaled)
            /\ (~C9_Sliced /\ printable < actual) =>
                  /\ C9_Scaled
                  /\ rstyle[1].transform = ScaleText(<<printable, actual>>)
            /\ (actual = 1600 /\ printable = 1000) => C9_Scaled
            /\ actual <= 0 => ~C9_Sliced /\ ~C9_Scaled

C9_Witness ==
    /\ harness = "prepare"
    /\ MeasuredWidth(rcfg[1]) = 1600
    /\ printable = 1000
    /\ C9_Scaled
    /\ root = <<>>

\* C10: a request that has called window.print() has, in this order, run the
\* first adapter pass, prepared the frames, run the snapshot build to its end
\* when the overview tab was active (every accessible frame harvested and its
\* section appended, no fetch outstanding), and started the second pass.
C10_Before(t, a, b) == Pos(t, a) > 0 /\ Pos(t, a) < Pos(t, b)

C10_PrintAfterBuild ==
    \A r \in 1..Len(reqs) :
        LET t == reqs[r].trace
        IN  (reqs[r].kind = "request" /\ Pos(t, Entry("window.print", 0)) > 0) =>
            /\ reqs[r].pending = {}
            /\ Pos(t, Entry("triggerPrint:start", 0)) = 1
            /\ C10_Before(t, Entry("prepareWideTablesForPrint:done", 0),
                             Entry("prepareAllFramesForPrint:done", 0))
            /\ C10_Before(t, Entry("prepareAllFramesForPrint:done", 0),
                             Entry("processWideTablesInCloneRoot:start", 0))
            /\ C10_Before(t, Entry("processWideTablesInCloneRoot:start", 0),
                             Entry("window.print", 0))
            /\ Pos(t, Entry("buildPrintClonesAsync:start", 0)) > 0 =>
                  /\ C10_Before(t, Entry("prepareAllFramesForPrint:done", 0),
                                   Entry("buildPrintClonesAsync:start", 0))
                  /\ C10_Before(t, Entry("buildPrintClonesAsync:start", 0),
                                   Entry("processWideTablesInCloneRoot:start", 0))
                  /\ hasRoot =>
                        /\ C10_Before(t, Entry("buildPrintClonesAsync:done", 0),
                                 Entry("processWideTablesInCloneRoot:start", 0))
                        /\ \A k \in SameOriginFrames :
                              /\ C10_Before(t,
                                     Entry("extractStylesFromDocAsync:start", k),
                                     Entry("buildPrintClonesAsync:cloned", k))
                              /\ C10_Before(t,
                                     Entry("buildPrintClonesAsync:cloned", k),
                                     Entry("buildPrintClonesAsync:done", 0))

C10_Witness ==
    /\ Len(reqs) = 2
    /\ reqs[2].kind = "request"
    /\ reqs[2].pc = "printing"
    /\ Pos(reqs[2].trace, Entry("buildPrintClonesAsync:cloned", 1)) > 0
    /\ Pos(reqs[2].trace, Entry("buildPrintClonesAsync:cloned", 2)) > 0
    /\ reqs[1].pc = "await"

(***************************************************************************)
(* The snapshot policy of triggerPrint.                                    *)
(***************************************************************************)
\* the step is a call of triggerPrint: a new run of kind "request"
C11_Requested ==
    /\ reqs' # reqs
    /\ Len(reqs') = Len(Current) + 1
    /\ reqs'[Len(reqs')].kind = "request"

C11_Snapshots(sections) ==
    {j \in 1..Len(sections) : sections[j].kind = "snapshot"}

\* C11: a print request made while the active panel is not 'tab-overview'
\* adds no snapshot section, starts no build and no stylesheet fetch, and
\* goes straight to window.print(); made while it is 'tab-overview', the
\* build starts, and window.print() comes only after it.  A run that never
\* started a build never waits for a fetch.
C11_SnapshotOnlyInOverview ==
    [][C11_Requested =>
         LET new == reqs'[Len(reqs')]
             t   == new.trace
         IN  /\ activeTab # "tab-overview" =>
                   /\ Pos(t, Entry("buildPrintClonesAsync:start", 0)) = 0
                   /\ new.pending = {}
                   /\ new.pc = "printing"
                   /\ Cardinality(C11_Snapshots(root'))
                         = Cardinality(C11_Snapshots(root))
                   /\ \A r \in 1..Len(reqs') :
                         Pos(reqs'[r].trace, Entry("buildPrintClonesAsync:start", 0)) = 0
                            => reqs'[r].pending = {}
             /\ activeTab = "tab-overview" =>
                   /\ Pos(t, Entry("buildPrintClonesAsync:start", 0)) > 0
                   /\ Pos(t, Entry("window.print", 0)) > 0 =>
                         Pos(t, Entry("buildPrintClonesAsync:start", 0))
                            < Pos(t, Entry("window.print", 0))]_vars

C11_Witness ==
    /\ activeTab = "tab-activities"
    /\ hasRoot
    /\ SameOriginFrames # {}
    /\ Len(reqs) = 1
    /\ reqs[1].kind = "request"
    /\ reqs[1].pc = "printing"
    /\ Pos(reqs[1].trace, Entry("buildPrintClonesAsync:start", 0)) = 0
    /\ C11_Snapshots(root) = {}
    /\ Len(root) >= 1

(***************************************************************************)
(* SpecHarvest: one print request on a page whose only frame has up to     *)
(* MaxLinks stylesheet links of every kind; the fetches settle in every    *)
(* order with every outcome.  harness is the list of <<link, outcome>> in  *)
(* the order the fetches settled.                                          *)
(***************************************************************************)
LinkText(i) == IF i = 1 THEN "B" ELSE IF i = 2 THEN "C" ELSE "css" \o ToString(i)

LinkKinds == {"same", "cross", "nohref"}

HarvestLinks ==
    UNION {{[i \in 1..n |-> Link(kinds[i],
                                 IF kinds[i] = "nohref" THEN "" ELSE LinkText(i))]
              : kinds \in [1..n -> LinkKinds]} : n \in 0..MaxLinks}

\* the textContent of the frame's style elements
HarvestInlines == {<<>>, <<"A">>, <<"A", "">>}

InitHarvest ==
    /\ activeTab = "tab-overview"
    /\ printable = 1000
    /\ rcfg = <<>>
    /\ rstyle = <<>>
    /\ \E inl \in HarvestInlines : \E links \in HarvestLinks :
           fcfg = << [access |-> "same", hasWrap |-> FALSE, fullHeight |-> 800,
                      inline |-> inl, links |-> links, cols |-> <<>>] >>
    /\ fstyle = <<FrameStyle("200px", "")>>
    /\ subdocs = <<SubDoc(FALSE)>>
    /\ hasRoot = TRUE
    /\ root = <<>>
    /\ rootDisplay = "none"
    /\ watermarks = 0
    /\ reqs = <<>>
    /\ dialog = Closed
    /\ harness = <<>>

HarvestStart ==
    /\ reqs = <<>>
    /\ TriggerPrint

HarvestSettle ==
    /\ Len(reqs) = 1
    /\ \E i \in reqs[1].pending : \E o \in FetchOutcomes :
           /\ FetchSettleStep(1, i, o)
           /\ harness' = Append(harness, <<i, o>>)

NextHarvest ==
    \/ HarvestStart
    \/ HarvestSettle

SpecHarvest == InitHarvest /\ [][NextHarvest]_vars

\* how the fetch of link i ended ("none": not fetched, or not yet settled)
HarvestOutcome(i) ==
    IF \E n \in 1..Len(harness) : harness[n][1] = i
    THEN harness[CHOOSE n \in 1..Len(harness) : harness[n][1] = i][2]
    ELSE "none"

\* the texts of the links whose fetch succeeded, in the order of the links
RECURSIVE FetchedFrom(_)
FetchedFrom(i) ==
    IF i > Len(fcfg[1].links) THEN <<>>
    ELSE (IF fcfg[1].links[i].kind = "same" /\ HarvestOutcome(i) = "ok"
          THEN <<fcfg[1].links[i].text>> ELSE <<>>) \o FetchedFrom(i + 1)

HarvestRange == {root[1].styles[n] : n \in 1..Len(root[1].styles)}

\* C12: the harvest of a frame is the texts of its style elements in
\* document order, then the texts of the same-origin links whose fetch
\* succeeded with a text, in the order of the links, whatever the order in
\* which the fetches settled.
C12_HarvestOrder ==
    root # <<>> => root[1].styles = fcfg[1].inline \o FetchedFrom(1)

C12_Witness ==
    /\ root # <<>>
    /\ Len(harness) = 2
    /\ harness[1] = <<2, "ok">>
    /\ harness[2] = <<1, "ok">>
    /\ root[1].styles = <<"A", "B", "C">>

\* C13: a link without href, a cross-origin link, a rejected fetch and a
\* non-success response contribute nothing; every stylesheet that was
\* fetched is in the result; the harvest always returns, so the frame's
\* section is appended once no fetch is outstanding.  Style A, link B
\* fetched and link C failed give [A, B].
C13_Failed(i) ==
    \/ fcfg[1].links[i].kind # "same"
    \/ HarvestOutcome(i) \in {"reject", "notok"}

C13_FailuresContained ==
    /\ root # <<>> =>
          /\ \A i \in 1..Len(fcfg[1].links) :
                /\ C13_Failed(i) => LinkText(i) \notin HarvestRange
                /\ (fcfg[1].links[i].kind = "same" /\ HarvestOutcome(i) = "ok")
                      => LinkText(i) \in HarvestRange
          /\ \A n \in 1..Len(fcfg[1].inline) :
                root[1].styles[n] = fcfg[1].inline[n]
          /\ (/\ fcfg[1].inline = <<"A">>
              /\ Len(fcfg[1].links) = 2
              /\ HarvestOutcome(1) = "ok"
              /\ C13_Failed(2)) => root[1].styles = <<"A", "B">>
    /\ (reqs # <<>> /\ reqs[1].pending = {}) =>
          /\ Len(root) = 1
          /\ root[1].kind = "snapshot"
          /\ Pos(reqs[1].trace, Entry("buildPrintClonesAsync:cloned", 1)) > 0

C13_Witness ==
    /\ root # <<>>
    /\ fcfg[1].inline = <<"A">>
    /\ Len(fcfg[1].links) = 2
    /\ HarvestOutcome(1) = "ok"
    /\ HarvestOutcome(2) = "notok"
    /\ root[1].styles = <<"A", "B">>

(***************************************************************************)
(* SpecForms: materializeFormValues called on a document with up to        *)
(* MaxControls controls and on a clone of it.  harness holds the source    *)
(* controls, the clone's controls as handed in and as left, whether the    *)
(* call has been made and whether it threw.                                *)
(***************************************************************************)
CheckableInputs ==
    {Control("INPUT", TypeCheckbox, ch, at, "on", UNDEF, "", FALSE, <<>>)
        : ch \in BOOLEAN, at \in BOOLEAN}
    \cup {Control("INPUT", ty, ch, FALSE, "on", UNDEF, "", FALSE, <<>>)
        : ty \in {TypeRadio, TypeCheckboxUpper}, ch \in BOOLEAN}

TextInputs ==
    {Control("INPUT", ty, FALSE, FALSE, v, "", "", FALSE, <<>>)
        : ty \in {NoType, TypeText}, v \in {"", "v"}}

TextAreas ==
    {Control("TEXTAREA", NoType, FALSE, FALSE, v, UNDEF, "", FALSE, <<>>)
        : v \in {"", "v"}}

\* three options; the first one carries the selected attribute in the markup
Options(values, sel) ==
    [j \in 1..Len(values) |-> Option(values[j], j \in sel, j = 1)]

Selects ==
    {Control("SELECT", NoType, FALSE, FALSE, "", UNDEF, "", FALSE,
             Options(<<"a", "b", "c">>, {j})) : j \in 1..3}
    \cup {Control("SELECT", NoType, FALSE, FALSE, "", UNDEF, "", FALSE,
             Options(<<"a", "b", "a">>, {j})) : j \in {1, 3}}
    \cup {Control("SELECT", NoType, FALSE, FALSE, "", UNDEF, "", TRUE,
             Options(<<"a", "b", "c">>, sel))
            : sel \in {{}, {1}, {2}, {1, 2}, {2, 3}}}

FormControls == CheckableInputs \cup TextInputs \cup TextAreas \cup Selects

\* a canvas with an origin-clean bitmap and one drawn from a cross-origin image
Canvases == {Canvas("p", FALSE), Canvas("q", TRUE)}

FormDocuments ==
    UNION {[1..n -> FormControls \cup Canvases] : n \in 0..MaxControls}

InitForms ==
    /\ activeTab = "tab-overview"
    /\ printable = 1000
    /\ rcfg = <<>>
    /\ rstyle = <<>>
    /\ fcfg = <<>>
    /\ fstyle = <<>>
    /\ subdocs = <<>>
    /\ hasRoot = TRUE
    /\ root = <<>>
    /\ rootDisplay = "none"
    /\ watermarks = 0
    /\ reqs = <<>>
    /\ dialog = Closed
    /\ \E orig \in FormDocuments : \E cloned \in CloneNode(orig) :
           harness = [phase |-> "cloned", source |-> orig, orig |-> orig,
                      input |-> cloned, cloned |-> cloned, threw |-> FALSE]

CallMaterializeFormValues ==
    /\ harness.phase = "cloned"
    /\ LET res == MaterializeFormValues(harness.orig, harness.cloned)
       IN  harness' = [harness EXCEPT !.phase = "materialized",
                                      !.orig = res.orig,
                                      !.cloned = res.cloned,
                                      !.threw = res.threw]
    /\ UNCHANGED <<activeTab, printable, rcfg, rstyle, fcfg, fstyle, hasRoot,
                   root, rootDisplay, watermarks, reqs, dialog, subdocs>>

\* await copyCanvasBitmapsAsync(doc, cloned), reached from phase `from`
\* when no exception has ended the snapshot
CallCopyCanvasBitmapsAsync(from) ==
    /\ harness.phase = from
    /\ ~harness.threw
    /\ LET res == CopyCanvasBitmapsAsync(harness.orig, harness.cloned)
       IN  harness' = [harness EXCEPT !.phase = "copied",
                                      !.orig = res.orig,
                                      !.cloned = res.cloned]
    /\ UNCHANGED <<activeTab, printable, rcfg, rstyle, fcfg, fstyle, hasRoot,
                   root, rootDisplay, watermarks, reqs, dialog, subdocs>>

\* materializeFormValues(doc, cloned); await copyCanvasBitmapsAsync(doc, cloned);
NextForms ==
    \/ CallMaterializeFormValues
    \/ CallCopyCanvasBitmapsAsync("materialized")

SpecForms == InitForms /\ [][NextForms]_vars

\* the type attribute names the checkbox or radio state: the attribute's
\* keywords are matched ASCII case-insensitively
C14_IsCheckable(o) ==
    /\ o.tag = "INPUT"
    /\ SelectorAttr(o.type) \in {TypeCheckbox, TypeRadio}

\* C14 (as claimed): after materializeFormValues, the clone of a checkbox or
\* radio has the source's checked property, and the checked attribute iff
\* the source is checked; the clone of any other input has the source's
\* value as property and attribute, the clone of a text area as property
\* and text content.
C14_ValuesMaterialized ==
    harness.phase = "materialized" =>
        \A i \in 1..Min(Len(harness.orig), Len(harness.cloned)) :
            LET o == harness.orig[i]
                c == harness.cloned[i]
            IN  /\ C14_IsCheckable(o) =>
                      c.checked = o.checked /\ c.checkedAttr = o.checked
                /\ (o.tag = "INPUT" /\ ~C14_IsCheckable(o)) =>
                      c.value = o.value /\ c.valueAttr = o.value
                /\ o.tag = "TEXTAREA" =>
                      c.value = o.value /\ c.text = o.value

\* C15 (as claimed): after materializeFormValues, an option of a select's
\* clone is marked selected, property and attribute, exactly when the
\* source's option at that place is selected.
C15_OptionsMaterialized ==
    harness.phase = "materialized" =>
        \A i \in 1..Min(Len(harness.orig), Len(harness.cloned)) :
            harness.orig[i].tag = "SELECT" =>
                \A j \in 1..Len(harness.orig[i].options) :
                    /\ harness.cloned[i].options[j].selected
                          = harness.orig[i].options[j].selected
                    /\ harness.cloned[i].options[j].selectedAttr
                          = harness.orig[i].options[j].selected

(***************************************************************************)
(* The adapter's policies over the whole page (Spec).                      *)
(***************************************************************************)
\* C16 (as claimed): no region carries the shrink transform and the slice
\* marker at the same time.
C16_OnePolicyPerRegion ==
    \A i \in 1..Len(rstyle) :
        ~(rstyle[i].transform # "" /\ AttrSliced \in rstyle[i].attrs)

\* C17 (as claimed): a region gets the slice marker only when a slice can
\* be built for it: the container exists, the region has a table and the
\* table has header cells.
C17_MarkedOnlyWhenSliced ==
    [][\A i \in 1..Len(rstyle) :
          (AttrSliced \in rstyle'[i].attrs /\ AttrSliced \notin rstyle[i].attrs)
             => (hasRoot /\ rcfg[i].hasTable /\ rcfg[i].cols # <<>>)]_vars

\* the sections of the container that show columns of region i's table
C18_SlicesOf(i) ==
    {j \in 1..Len(root) : root[j].kind = "slice" /\ root[j].cols = rcfg[i].cols}

\* C18 (as claimed): while the dialog opened by a print request is open,
\* every region that carries the slice marker has its slice sections in the
\* container.
C18_SlicesSurviveBuild ==
    (dialog.open /\ reqs[dialog.by].kind = "request" /\ hasRoot) =>
        \A i \in 1..Len(rstyle) :
            AttrSliced \in rstyle[i].attrs => C18_SlicesOf(i) # {}

\* the column groups of the slice sections made from the table of section j
C19_GroupsOf(j) ==
    LET picks == SelectSeq([n \in 1..Len(root) |-> n],
                           LAMBDA n : root[n].kind = "slice"
                                      /\ root[n].cols = root[j].cols)
    IN  [n \in 1..Len(picks) |-> <<root[picks[n]].from, root[picks[n]].to>>]

\* C19 (as claimed): while the dialog opened by a lone print request is
\* open, the table of a snapshot section is sliced iff 8 * printable is below
\* 5 * its width, into the groups buildTableColumnSlices computes from the
\* rendered widths of its header cells, and is otherwise scaled iff it is
\* wider than the printable width.
C19_SecondPassAsFirst ==
    (dialog.open /\ Len(reqs) = 1 /\ reqs[1].kind = "request" /\ hasRoot) =>
        \A j \in 1..Len(root) :
            (root[j].kind = "snapshot" /\ root[j].hasTable) =>
                LET actual == SumSeq(root[j].cols)
                    sliced == root[j].tblDisplay = "none"
                IN  /\ sliced <=> (actual > 0 /\ 8 * printable < 5 * actual)
                    /\ sliced => C19_GroupsOf(j) = ColumnGroups(root[j].cols, printable)
                    /\ (~sliced /\ printable < actual) =>
                          root[j].tblTransform = ScaleText(<<printable, actual>>)
                    /\ (~sliced /\ printable >= actual) => root[j].tblTransform = ""

(***************************************************************************)
(* The least number of groups (SpecAdapter).                               *)
(***************************************************************************)
\* columns [from, to) may form one group: they fit, or it is a single column
C20_Allowed(w, p, from, to) ==
    to = from + 1 \/ RangeSum(w, from, to) <= p

C20_Min(S) == CHOOSE x \in S : \A y \in S : x <= y

\* the least number of allowed contiguous groups that cover columns [from, n)
RECURSIVE C20_Least(_, _, _)
C20_Least(w, p, from) ==
    IF from >= Len(w) THEN 0
    ELSE C20_Min({1 + C20_Least(w, p, to) :
                    to \in {t \in (from + 1)..Len(w) : C20_Allowed(w, p, from, t)}})

\* C20: the number of groups buildTableColumnSlices makes is the least
\* number of left-to-right contiguous groups in which every group fits the
\* printable width or is a single column.
C20_FewestGroups ==
    harness = "slices" =>
        Len(root) = C20_Least(HeaderWidths(rcfg[1].cols), printable, 0)

C20_Witness ==
    /\ harness = "slices"
    /\ Len(rcfg[1].cols) = 4
    /\ Len(root) = 2
    /\ \E k \in 1..Len(root) : root[k].to - root[k].from = 3
    /\ \E c \in 1..Len(rcfg[1].cols) : rcfg[1].cols[c] > printable

(***************************************************************************)
(* The sections of buildTableColumnSlices (SpecAdapter).                   *)
(***************************************************************************)
\* the cell indexes of a section's table that carry display none
C21_Hidden(sec) == AllCols(sec.cols) \ sec.vis

\* C21: buildTableColumnSlices appends one section per column group, in
\* group order; each holds the whole table (every cell kept), the cell at
\* index ci hidden iff ci < from or ci >= to; so every column is visible in
\* exactly one section and the sections run left to right.
C21_OneSectionPerGroup ==
    harness = "slices" =>
        LET g == ColumnGroups(rcfg[1].cols, printable)
        IN  /\ Len(root) = Len(g)
            /\ \A k \in 1..Len(root) :
                  /\ root[k].kind = "slice"
                  /\ <<root[k].from, root[k].to>> = g[k]
                  /\ root[k].cols = rcfg[1].cols
                  /\ C21_Hidden(root[k]) =
                        {ci \in AllCols(rcfg[1].cols) :
                            ci < root[k].from \/ ci >= root[k].to}
            /\ \A ci \in AllCols(rcfg[1].cols) :
                  Cardinality({k \in 1..Len(root) : ci \in root[k].vis}) = 1
            /\ \A k \in 1..(Len(root) - 1) :
                  \A a \in root[k].vis : \A b \in root[k + 1].vis : a < b

C21_Witness ==
    /\ harness = "slices"
    /\ Len(root) = 3
    /\ root[2].vis = {1, 2}
    /\ C21_Hidden(root[2]) = {0, 3}

(***************************************************************************)
(* The scale transforms of the whole page (Spec).                          *)
(***************************************************************************)
\* t is the transform the engine writes for a ratio r = p / actual with
\* 0.625 <= r < 1
C22_Shrinks(t, actual, p) ==
    /\ t = ScaleText(<<p, actual>>)
    /\ ThresholdNum * actual <= ThresholdDen * p
    /\ p < actual

\* C22: every scale transform the engine has written, on a region or on a
\* table of the container, has a factor r = printable / width with
\* 0.625 <= r < 1, the printable width being the one of the print that
\* wrote it; a print request leaves a region whose width is at most the
\* printable width without new transform and without new scale marker, and
\* a table of the container that is no wider than the page has no transform.
C22_NeverScalesUp ==
    [][/\ \A i \in 1..Len(rstyle') :
             /\ rstyle'[i].transform # "" =>
                   \E p \in PrintableWidths :
                       C22_Shrinks(rstyle'[i].transform, MeasuredWidth(rcfg[i]), p)
             /\ rstyle'[i].transform # rstyle[i].transform =>
                   C22_Shrinks(rstyle'[i].transform, MeasuredWidth(rcfg[i]), printable)
             /\ printable >= MeasuredWidth(rcfg[i]) =>
                   /\ rstyle'[i].transform = rstyle[i].transform
                   /\ rstyle'[i].attrs \cap {AttrScaled} = rstyle[i].attrs \cap {AttrScaled}
       /\ \A j \in 1..Len(root') :
             /\ root'[j].tblTransform # "" =>
                   C22_Shrinks(root'[j].tblTransform, TableScrollWidth(root'[j]),
                               printable')
             /\ TableScrollWidth(root'[j]) <= printable' =>
                   root'[j].tblTransform = ""]_vars

C22_Witness ==
    /\ dialog.open
    /\ printable = 1000
    /\ \E j \in 1..Len(root) :
          /\ root[j].kind = "snapshot"
          /\ root[j].tblTransform = ScaleText(<<1000, 1200>>)
    /\ \E i \in 1..Len(rstyle) :
          rstyle[i].transform = ScaleText(<<1800, 2000>>)

(***************************************************************************)
(* The order of the snapshot build (Spec).                                 *)
(***************************************************************************)
\* the frames of the snapshot sections in the container, in container order
C23_SnapshotFrames ==
    LET picks == SelectSeq([n \in 1..Len(root) |-> n],
                           LAMBDA n : root[n].kind = "snapshot")
    IN  [n \in 1..Len(picks) |-> root[picks[n]].idx]

\* C23 (as claimed): in every run the style harvest of a frame starts only
\* after the section of every earlier accessible frame has been appended;
\* the container holds at most one snapshot section per frame, in frame
\* order; a frame whose stylesheets a run still waits for has no section
\* appended by that run.
C23_OneFrameAtATime ==
    /\ \A r \in 1..Len(reqs) :
          LET t == reqs[r].trace
          IN  /\ \A k \in SameOriginFrames : \A n \in SameOriginFrames :
                    (k < n /\ Pos(t, Entry("extractStylesFromDocAsync:start", n)) > 0)
                       => C10_Before(t, Entry("buildPrintClonesAsync:cloned", k),
                                        Entry("extractStylesFromDocAsync:start", n))
              /\ reqs[r].pc = "await" =>
                    Pos(t, Entry("buildPrintClonesAsync:cloned", reqs[r].idx)) = 0
    /\ \A a \in 1..Len(C23_SnapshotFrames) : \A b \in 1..Len(C23_SnapshotFrames) :
          a < b => C23_SnapshotFrames[a] < C23_SnapshotFrames[b]

(***************************************************************************)
(* Frames that cannot be snapshotted (Spec).                               *)
(***************************************************************************)
C24_Unreachable == {k \in 1..Len(fcfg) : fcfg[k].access # "same"}

C24_SectionsOf(k) ==
    {j \in 1..Len(root) : root[j].kind = "snapshot" /\ root[j].idx = k}

\* C24 (as claimed): a frame that is cross-origin, has no document, or
\* whose snapshot throws never has a section in the container and never
\* has its or its wrapper's inline height or overflow changed; a request
\* waits for nothing but stylesheet fetches, and once it has called
\* window.print() after a build it has appended the section of every other
\* frame.
C24_FailuresContained ==
    /\ \A k \in C24_Unreachable :
          /\ C24_SectionsOf(k) = {}
          /\ fstyle[k] = PageFrameStyles[k]
    /\ \A r \in 1..Len(reqs) :
          LET t == reqs[r].trace
          IN  /\ reqs[r].pc = "await" =>
                    /\ HasDocument(reqs[r].idx)
                    /\ reqs[r].pending # {}
              /\ (reqs[r].kind = "request" /\ reqs[r].pc # "await") =>
                    Pos(t, Entry("window.print", 0)) > 0
              /\ (/\ hasRoot
                  /\ Pos(t, Entry("buildPrintClonesAsync:start", 0)) > 0
                  /\ Pos(t, Entry("window.print", 0)) > 0) =>
                    \A k \in SameOriginFrames :
                        C10_Before(t, Entry("buildPrintClonesAsync:cloned", k),
                                      Entry("window.print", 0))

(***************************************************************************)
(* SpecPairing: materializeFormValues and copyCanvasBitmapsAsync called on *)
(* two lists of controls and canvases drawn independently, so that they    *)
(* differ in length and in kinds.                                          *)
(***************************************************************************)
PairControls ==
    {Control("INPUT", TypeCheckbox, TRUE, FALSE, "on", UNDEF, "", FALSE, <<>>),
     Control("INPUT", TypeText, FALSE, FALSE, "v", "", "", FALSE, <<>>),
     Control("TEXTAREA", NoType, FALSE, FALSE, "w", UNDEF, "", FALSE, <<>>),
     Control("SELECT", NoType, FALSE, FALSE, "", UNDEF, "", FALSE,
             Options(<<"a", "b", "c">>, {2}))}

PairDocuments ==
    UNION {[1..n -> PairControls \cup Canvases] : n \in 0..MaxControls}

InitPairing ==
    /\ activeTab = "tab-overview"
    /\ printable = 1000
    /\ rcfg = <<>>
    /\ rstyle = <<>>
    /\ fcfg = <<>>
    /\ fstyle = <<>>
    /\ subdocs = <<>>
    /\ hasRoot = TRUE
    /\ root = <<>>
    /\ rootDisplay = "none"
    /\ watermarks = 0
    /\ reqs = <<>>
    /\ dialog = Closed
    /\ \E orig \in PairDocuments : \E cloned \in PairDocuments :
           harness = [phase |-> "cloned", source |-> orig, orig |-> orig,
                      input |-> cloned, cloned |-> cloned, threw |-> FALSE]

NextPairing ==
    \/ CallMaterializeFormValues
    \/ CallCopyCanvasBitmapsAsync("cloned")

SpecPairing == InitPairing /\ [][NextPairing]_vars

\* the places in a list of nodes of those a selector picks, in list order
Places(doc, tags) ==
    SelectSeq([k \in 1..Len(doc) |-> k], LAMBDA k : doc[k].tag \in tags)

\* C27 (as claimed): materializeFormValues leaves the clone's controls at
\* and beyond the length of the shorter list of controls, and every other
\* node of the clone, as they were, and ends without an exception whatever
\* the numbers and kinds of the controls.
C27_PairingTolerant ==
    harness.phase = "materialized" =>
        LET src == Places(harness.source, ControlTags)
            dst == Places(harness.input, ControlTags)
        IN  /\ Len(harness.cloned) = Len(harness.input)
            /\ \A i \in 1..Len(dst) :
                  i > Min(Len(src), Len(dst)) =>
                      harness.cloned[dst[i]] = harness.input[dst[i]]
            /\ \A k \in 1..Len(harness.input) :
                  harness.input[k].tag \notin ControlTags =>
                      harness.cloned[k] = harness.input[k]
            /\ ~harness.threw

\* C26: copyCanvasBitmapsAsync replaces the i-th canvas of the clone, for
\* i up to the shorter of the two lists of canvases, by an image of the
\* i-th source canvas's bitmap exactly when that bitmap can be extracted; a
\* canvas whose extraction fails stays, the canvases after it are still
\* handled, and nothing else in the clone changes.
C26_CanvasesCopied ==
    harness.phase = "copied" =>
        LET src == Places(harness.source, CanvasTags)
            dst == Places(harness.input, CanvasTags)
        IN  /\ Len(harness.cloned) = Len(harness.input)
            /\ ~harness.threw
            /\ \A i \in 1..Len(dst) :
                  IF i <= Min(Len(src), Len(dst)) /\ ~harness.source[src[i]].tainted
                  THEN /\ harness.cloned[dst[i]].tag = "IMG"
                       /\ harness.cloned[dst[i]].src[2] = harness.source[src[i]].pixels
                  ELSE harness.cloned[dst[i]] = harness.input[dst[i]]
            /\ \A k \in 1..Len(harness.input) :
                  harness.input[k].tag \notin CanvasTags =>
                      harness.cloned[k] = harness.input[k]

C26_Witness ==
    /\ harness.phase = "copied"
    /\ Len(harness.source) = 2
    /\ harness.source[1] = Canvas("q", TRUE)
    /\ harness.source[2] = Canvas("p", FALSE)
    /\ Len(harness.cloned) = 2
    /\ harness.cloned[1] = harness.input[1]
    /\ harness.cloned[1].tag = "CANVAS"
    /\ harness.cloned[2].tag = "IMG"

(***************************************************************************)
(* The source document during the snapshot (SpecForms).                    *)
(***************************************************************************)
\* C25: cloning the body, materializing the form state and copying the
\* canvases leave every node of the source document as it was: the
\* controls' values, checked states and selected options, the canvases and
\* the list of nodes itself.
C25_SourceUntouched ==
    /\ harness.orig = harness.source
    /\ harness.phase = "cloned" => harness.cloned = harness.input

C25_Witness ==
    /\ harness.phase = "copied"
    /\ \E a \in 1..Len(harness.source) : \E b \in 1..Len(harness.source) :
          /\ harness.source[a].tag = "SELECT"
          /\ harness.source[a].multiple
          /\ harness.cloned[a] # harness.input[a]
          /\ harness.source[b] = Canvas("p", FALSE)
          /\ harness.cloned[b].tag = "IMG"

(***************************************************************************)
(* SpecNotify: the page with frames whose documents run child.js.  The     *)
(* messages posted to a frame are delivered one by one, in the order they  *)
(* were posted, whenever the frame's event loop is free: the print dialog  *)
(* blocks the loop the same-origin frames share with the page.             *)
(***************************************************************************)
NotifyAccess == {<<"same", "cross">>, <<"cross", "same">>, <<"same", "nodoc">>}

InitNotify ==
    /\ activeTab = "tab-overview"
    /\ printable = 1000
    /\ rcfg = <<>>
    /\ rstyle = <<>>
    /\ \E a \in NotifyAccess : fcfg = PageFrames(a[1], a[2])
    /\ fstyle = PageFrameStyles
    /\ subdocs = [k \in 1..Len(PageFrameStyles) |-> SubDoc(TRUE)]
    /\ hasRoot = TRUE
    /\ root = <<>>
    /\ rootDisplay = "none"
    /\ watermarks = 0
    /\ reqs = <<>>
    /\ dialog = Closed
    /\ harness = "none"

\* the message event of a frame's window: the listener of bindMessageBridge
Deliver(k) ==
    /\ subdocs[k].inbox # <<>>
    /\ ~dialog.open \/ fcfg[k].access = "cross"
    /\ subdocs' = [subdocs EXCEPT
                      ![k] = [OnMessage(@, Head(@.inbox)) EXCEPT !.inbox = Tail(@)]]
    /\ UNCHANGED <<activeTab, printable, rcfg, rstyle, fcfg, fstyle, hasRoot,
                   root, rootDisplay, watermarks, reqs, dialog, harness>>

Message == \E k \in 1..Len(subdocs) : Deliver(k)

NextNotify ==
    \/ TriggerPrint
    \/ Fetch
    \/ BrowserPrint
    \/ AfterPrint
    \/ Message

SpecNotify == InitNotify /\ [][NextNotify]_vars

\* the messages a step has posted to frame k: what its inbox has gained
\* (no message is delivered in a step that posts)
C28_Posted(k) ==
    IF Len(subdocs'[k].inbox) >= Len(subdocs[k].inbox)
    THEN SubSeq(subdocs'[k].inbox, Len(subdocs[k].inbox) + 1, Len(subdocs'[k].inbox))
    ELSE <<>>

\* the step calls notifySubframes: some inbox grows
C28_Notifies == \E k \in 1..Len(subdocs) : C28_Posted(k) # <<>>

\* C28: a step that calls notifySubframes(type) posts the message to every
\* frame that has a content window, cross-origin ones and those after a
\* cross-origin one included; on a same-origin frame it calls the entry
\* point of that type and no other (appBeforePrint for prepare,
\* appAfterPrint for clean), on a cross-origin frame none.
C28_EveryFrameNotified ==
    [][C28_Notifies =>
         \E type \in {MsgPrep, MsgClean} :
             \A k \in 1..Len(subdocs) :
                 IF NoWindow(fcfg[k])
                 THEN subdocs'[k] = subdocs[k]
                 ELSE /\ C28_Posted(k) # <<>>
                      /\ \A n \in 1..Len(C28_Posted(k)) : C28_Posted(k)[n] = type
                      /\ subdocs'[k].direct =
                            IF fcfg[k].access = "cross" THEN <<>>
                            ELSE IF type = MsgPrep THEN <<"appBeforePrint">>
                            ELSE <<"appAfterPrint">>
                      /\ (fcfg[k].access # "cross" /\ type = MsgPrep) =>
                            subdocs'[k].wm = 1
                      /\ (fcfg[k].access # "cross" /\ type = MsgClean) =>
                            subdocs'[k].wm = 0]_vars

C28_Witness ==
    /\ fcfg[1].access = "cross"
    /\ fcfg[2].access = "same"
    /\ ~dialog.open
    /\ subdocs[1].inbox = <<MsgPrep, MsgPrep, MsgClean>>
    /\ subdocs[2].inbox = <<MsgPrep, MsgPrep, MsgClean>>
    /\ subdocs[2].direct = <<"appAfterPrint">>
    /\ subdocs[1].direct = <<>>

\* C29: a sub-document never holds more than one watermark, whatever
\* prepare signals reach it (direct calls, messages, its own beforeprint);
\* once the page is idle again, handleAfterPrint having run for every print,
\* and every posted message has been delivered, no sub-document shows a
\* watermark.
C29_CleanSymmetric ==
    /\ \A k \in 1..Len(subdocs) : subdocs[k].wm <= 1
    /\ (Idle /\ \A k \in 1..Len(subdocs) : subdocs[k].inbox = <<>>) =>
          \A k \in 1..Len(subdocs) : subdocs[k].wm = 0

C29_Witness ==
    /\ Idle
    /\ Len(reqs) = 2
    /\ reqs[1].kind = "request"
    /\ fcfg[2].access = "cross"
    /\ \A k \in 1..Len(subdocs) : subdocs[k].inbox = <<>> /\ subdocs[k].wm = 0

(***************************************************************************)
(* The regions of the panels that are not shown (Spec).                    *)
(***************************************************************************)
\* the slice sections among `sections` that show the table of region i
C30_SlicesOf(sections, i) ==
    {j \in 1..Len(sections) :
        sections[j].kind = "slice" /\ sections[j].cols = rcfg[i].cols}

\* C30: a print request leaves every region that lies in a tab panel other
\* than the active one with the inline style and the markers it had, and
\* adds no slice section of its table to the container.
C30_HiddenRegionsUntouched ==
    [][C11_Requested =>
         \A i \in 1..Len(rcfg) :
             (rcfg[i].panel # "none" /\ rcfg[i].panel # activeTab) =>
                 /\ rstyle'[i] = rstyle[i]
                 /\ Cardinality(C30_SlicesOf(root', i))
                       <= Cardinality(C30_SlicesOf(root, i))]_vars

C30_Witness ==
    /\ activeTab = "tab-activities"
    /\ printable = 1000
    /\ dialog.open
    /\ Len(reqs) = 1
    /\ reqs[1].kind = "request"
    /\ AttrSliced \in rstyle[1].attrs
    /\ rstyle[2] = NoStyle
    /\ Cardinality(C30_SlicesOf(root, 1)) = 3
    /\ C30_SlicesOf(root, 2) = {}

(***************************************************************************)
(* SpecLive: print requests and browser prints on the page of Spec, whose  *)
(* frames hold no table here (the second pass over the snapshot sections   *)
(* has nothing to adapt), under the assumptions of the lifecycle: a        *)
(* stylesheet fetch that is outstanding settles (the browser completes or  *)
(* fails every request), and an open print dialog is closed (print-end     *)
(* fires for every native print).  Nothing is assumed about print clicks.  *)
(***************************************************************************)
LiveFrames(a1, a2) ==
    [k \in 1..Len(PageFrameStyles) |->
        [PageFrames(a1, a2)[k] EXCEPT !.cols = <<>>]]

InitLive ==
    /\ activeTab = "tab-overview"
    /\ printable = 1000
    /\ rcfg = PageRegions
    /\ rstyle = [i \in 1..Len(PageRegions) |-> NoStyle]
    /\ \E a \in FrameAccess : fcfg = LiveFrames(a[1], a[2])
    /\ fstyle = PageFrameStyles
    /\ subdocs = [k \in 1..Len(PageFrameStyles) |-> SubDoc(FALSE)]
    /\ hasRoot \in BOOLEAN
    /\ root = <<>>
    /\ rootDisplay = "none"
    /\ watermarks = 0
    /\ reqs = <<>>
    /\ dialog = Closed
    /\ harness = "none"

NextLive ==
    \/ TriggerPrint
    \/ Fetch
    \/ BrowserPrint
    \/ AfterPrint

SpecLive ==
    InitLive /\ [][NextLive]_vars /\ WF_vars(Fetch) /\ WF_vars(AfterPrint)

\* run r is an invocation of triggerPrint
C31_Requested(r) == r \in 1..Len(reqs) /\ reqs[r].kind = "request"

\* run r is an invocation of triggerPrint that has called window.print()
C31_Invoked(r) ==
    /\ C31_Requested(r)
    /\ Pos(reqs[r].trace, Entry("window.print", 0)) > 0

C32_EventuallyConsistent ==
    (Idle /\ reqs # <<>>) =>
        /\ root = <<>>
        /\ rootDisplay = "none"
        /\ watermarks = 0
        /\ \A i \in 1..Len(rstyle) : rstyle[i] = NoStyle
        /\ fstyle = PageFrameStyles

(***************************************************************************)
(* The places of the linked stylesheets in the harvest (SpecHarvest).      *)
(***************************************************************************)
\* link i is cross-origin, or its fetch was rejected or answered without
\* success
C33_Unavailable(i) ==
    \/ fcfg[1].links[i].kind = "cross"
    \/ HarvestOutcome(i) \in {"reject", "notok"}

\* the links that were fetched with a text
C33_Fetched ==
    {i \in 1..Len(fcfg[1].links) :
        fcfg[1].links[i].kind = "same" /\ HarvestOutcome(i) = "ok"}

\* C33 as claimed: the harvest has one entry per style element plus one
\* entry per link, and the entry of a cross-origin or unreachable link is
\* the empty string.
C33_EmptyAtOwnPosition ==
    root # <<>> =>
        /\ Len(root[1].styles) = Len(fcfg[1].inline) + Len(fcfg[1].links)
        /\ \A i \in 1..Len(fcfg[1].links) :
               C33_Unavailable(i) =>
                   root[1].styles[Len(fcfg[1].inline) + i] = ""

\* C33 as amended: while the fetches are outstanding the results of the
\* links' tasks have one entry per link, the empty string for a link that
\* has no href, is cross-origin or whose fetch failed; the harvest drops the
\* empty ones: it has one entry per style element plus one entry per link
\* that was fetched with a text, and no entry stands for another link.
C33_FailedLinksDropped ==
    /\ (reqs # <<>> /\ reqs[1].pc = "await") =>
           /\ Len(reqs[1].ext) = Len(fcfg[1].links)
           /\ \A i \in 1..Len(fcfg[1].links) :
                  (fcfg[1].links[i].kind = "nohref" \/ C33_Unavailable(i))
                      => reqs[1].ext[i] = ""
    /\ root # <<>> =>
           /\ Len(root[1].styles)
                 = Len(fcfg[1].inline) + Cardinality(C33_Fetched)
           /\ \A n \in 1..Len(root[1].styles) :
                  n > Len(fcfg[1].inline) => root[1].styles[n] # ""

C33_Witness ==
    /\ root # <<>>
    /\ fcfg[1].inline = <<"A", "">>
    /\ Len(fcfg[1].links) = 2
    /\ fcfg[1].links[1].kind = "same"
    /\ HarvestOutcome(1) = "reject"
    /\ HarvestOutcome(2) = "ok"
    /\ root[1].styles = <<"A", "", "C">>

====
